---------------------------- MODULE Spec2Model ----------------------------
(***************************************************************************)
(* AODV routing core of the Bluetooth Mesh host (subsys/bluetooth/host/    *)
(* mesh): the routing table (routing_table.c) and the control-message      *)
(* state machine (aodv_control_messages.c).                                *)
(*                                                                         *)
(* The state of one node is a record (entry blocks of the slab, the two    *)
(* intrusive lists, the neighbour list, the pending-reply list, the last   *)
(* handler's emissions); the module's variables hold one such record per   *)
(* node.  Handlers are operators from a node state to a node state, built  *)
(* from the same primitive steps the fine-grained specifications take one  *)
(* at a time.                                                              *)
(***************************************************************************)
EXTENDS Integers, Sequences, FiniteSets, TLC

\* ------------------------------------------------------------------------
\* Bounds of the model and program constants
\* ------------------------------------------------------------------------
\* Blocks of routing_table_slab (20 in routing_table.h, scaled down)
NUMBER_OF_ENTRIES == 2
\* Blocks of hello_msg_slab (20 in aodv_control_messages.c, scaled down)
hello_msg_list_NUMBER_OF_ENTRIES == 2
\* Blocks of rrep_slab (20 in aodv_control_messages.c, scaled down)
rrep_rwait_list_NUMBER_OF_ENTRIES == 2
\* Blocks of destination_slab (20 in aodv_control_messages.c, scaled down)
DESTINATION_LIST_NUMBER_OF_ENTRIES == 2
\* Largest sequence number the environment and the nodes use
MaxSeq == 1
RSSI_MIN == -90
RREQ_RING_SEARCH_MAX_TTL == 10
\* Initial TTL of a ring search ("Mesh specs prohibits the use of TTL = 1")
RING_INITIAL_TTL == 2

NULL == 0
Slots == 1..NUMBER_OF_ENTRIES
\* The nodes A, B, C of the line topology; a node's primary address is its id
Nodes == 1..3
BT_MESH_ADDR_ALL_NODES == 65535

\* bt_mesh_primary_addr(), bt_mesh_elem_count(), bt_mesh_elem_find()
bt_mesh_primary_addr(n) == n
bt_mesh_elem_count(n) == 1
bt_mesh_elem_find(n, addr) ==
    addr >= bt_mesh_primary_addr(n) /\ addr < bt_mesh_primary_addr(n) + bt_mesh_elem_count(n)

\* ------------------------------------------------------------------------
\* C arithmetic
\* ------------------------------------------------------------------------
Abs(x) == IF x < 0 THEN -x ELSE x
\* Integer division of C: truncation toward zero
CDiv(a, b) == IF (a < 0) = (b < 0) THEN Abs(a) \div Abs(b) ELSE -(Abs(a) \div Abs(b))
ToU8(x) == x % 256
\* Conversion of an int to s8_t (two's complement wrap)
ToS8(x) == IF (x % 256) >= 128 THEN (x % 256) - 256 ELSE x % 256

\* ------------------------------------------------------------------------
\* Route entry blocks and the two intrusive lists
\* ------------------------------------------------------------------------
\* A block as memset() leaves it; lifetime is the callback the timer is
\* armed with ("stopped" when not running), node is the slist next pointer.
ZeroEntry ==
    [ alloc |-> TRUE, source_address |-> 0, destination_address |-> 0,
      destination_sequence_number |-> 0, next_hop |-> 0,
      source_number_of_elements |-> 0, destination_number_of_elements |-> 0,
      hop_count |-> 0, rssi |-> 0, net_idx |-> 0,
      lifetime |-> "stopped", node |-> NULL ]

FreeBlock == [ZeroEntry EXCEPT !.alloc = FALSE]

EmptyList == [head |-> NULL, tail |-> NULL]

\* State of a node after bt_mesh_routing_table_init() and the list inits.
\* hello_msg_slab keeps what hello_msg_slab has suffered: whether a record
\* was freed with its timer still armed, and whether one was freed twice;
\* destination_slab counts the blocks of destination_slab that are taken.
InitNode ==
    [ entry |-> [i \in Slots |-> FreeBlock],
      valid_list |-> EmptyList,
      invalid_list |-> EmptyList,
      hello_msg_list |-> << >>,
      hello_msg_slab |-> [armed |-> FALSE, twice |-> FALSE],
      rrep_rwait_list |-> << >>,
      rerr_list |-> << >>,
      destination_slab |-> 0,
      seq |-> 0,
      out |-> << >> ]

\* The nodes reachable from a head by following node.next (cut after
\* NUMBER_OF_ENTRIES + 1 steps: a longer walk means the list is cyclic)
RECURSIVE Walk(_, _, _)
Walk(ent, cur, fuel) ==
    IF cur = NULL \/ fuel = 0 THEN << >>
    ELSE << cur >> \o Walk(ent, ent[cur].node, fuel - 1)

ListSeq(s, list) == Walk(s.entry, list.head, NUMBER_OF_ENTRIES + 1)
ValidSeq(s) == ListSeq(s, s.valid_list)
InvalidSeq(s) == ListSeq(s, s.invalid_list)
SeqSet(q) == {q[i] : i \in 1..Len(q)}
InList(s, list, e) == e \in SeqSet(ListSeq(s, list))

\* sys_slist_append(list, &e->node) on the list named which
sys_slist_append(s, which, e) ==
    LET list == s[which]
        ent1 == [s.entry EXCEPT ![e].node = NULL]
        ent2 == IF list.tail = NULL THEN ent1
                ELSE [ent1 EXCEPT ![list.tail].node = e]
        nl   == IF list.tail = NULL THEN [head |-> e, tail |-> e]
                ELSE [list EXCEPT !.tail = e]
    IN  [s EXCEPT !.entry = ent2, ![which] = nl]

\* sys_slist_find_and_remove(list, &e->node): no effect when e is not linked
sys_slist_find_and_remove(s, which, e) ==
    LET list == s[which]
        q    == ListSeq(s, list)
    IN  IF e \notin SeqSet(q) THEN s
        ELSE LET i    == CHOOSE k \in 1..Len(q) : q[k] = e /\ \A j \in 1..(k-1) : q[j] # e
                 prev == IF i = 1 THEN NULL ELSE q[i-1]
                 nxt  == s.entry[e].node
                 nl   == IF prev = NULL
                         THEN [head |-> nxt, tail |-> IF list.tail = e THEN nxt ELSE list.tail]
                         ELSE [head |-> list.head, tail |-> IF list.tail = e THEN prev ELSE list.tail]
                 ent1 == IF prev = NULL THEN s.entry
                         ELSE [s.entry EXCEPT ![prev].node = nxt]
             IN  [s EXCEPT !.entry = [ent1 EXCEPT ![e].node = NULL], ![which] = nl]

\* k_mem_slab_alloc(&routing_table_slab, ...): a free block, NULL on timeout
FreeSlots(s) == {i \in DOMAIN s.entry : ~s.entry[i].alloc}
LiveSlots(s) == {i \in DOMAIN s.entry : s.entry[i].alloc}
k_mem_slab_alloc(s) ==
    IF FreeSlots(s) = {} THEN NULL
    ELSE CHOOSE i \in FreeSlots(s) : \A j \in FreeSlots(s) : i <= j

\* k_mem_slab_free(&routing_table_slab, &e)
\* (the bytes of a free block belong to the allocator, which overwrites the
\* first word with its free-list link; the model holds a free block as zeros
\* and keeps only its list link, which the slab does not touch)
k_mem_slab_free(s, e) == [s EXCEPT !.entry[e] = [FreeBlock EXCEPT !.node = s.entry[e].node]]

\* k_timer_init + k_timer_start with callback cb, and k_timer_stop
k_timer_start(s, e, cb) == [s EXCEPT !.entry[e].lifetime = cb]
k_timer_stop(s, e) == [s EXCEPT !.entry[e].lifetime = "stopped"]


\* ------------------------------------------------------------------------
\* routing_table.c: create
\* ------------------------------------------------------------------------
\* What a create hands back when the slab allocation timed out
CreateFailed(s) == [st |-> s, ret |-> FALSE, e |-> NULL]

\* A create that takes no notice of the allocation result and goes on with
\* the block its pointer happens to name
create_begin_unchecked(s) ==
    LET e == IF k_mem_slab_alloc(s) = NULL THEN 1 ELSE k_mem_slab_alloc(s)
    IN  [st |-> [s EXCEPT !.entry[e] = ZeroEntry], ret |-> TRUE, e |-> e]

\* The three parts of a create: the allocation with its memset (or the early
\* return of false), the append under the list's semaphore, the arming of the
\* lifetime timer with callback cb
create_begin(s) ==
    LET e == k_mem_slab_alloc(s)
    IN  IF e = NULL THEN CreateFailed(s)
        ELSE [st |-> [s EXCEPT !.entry[e] = ZeroEntry], ret |-> TRUE, e |-> e]
create_link(s, e, which) == sys_slist_append(s, which, e)
create_arm(s, e, cb) == k_timer_start(s, e, cb)

CreateEntry(s, which, cb) ==
    LET b == create_begin(s)
    IN  IF ~b.ret THEN b
        ELSE [st |-> create_arm(create_link(b.st, b.e, which), b.e, cb),
              ret |-> TRUE, e |-> b.e]

bt_mesh_create_entry_valid(s) ==
    CreateEntry(s, "valid_list", "bt_mesh_delete_entry_valid")

bt_mesh_create_entry_invalid(s) ==
    CreateEntry(s, "invalid_list", "bt_mesh_delete_entry_invalid")

bt_mesh_create_entry_invalid_with_cb(s, timer_cb) ==
    CreateEntry(s, "invalid_list", timer_cb)

\* ------------------------------------------------------------------------
\* routing_table.c: search (each returns the first match in list order)
\* ------------------------------------------------------------------------
FirstOf(q, S) ==
    IF \E i \in 1..Len(q) : q[i] \in S
    THEN q[CHOOSE i \in 1..Len(q) : q[i] \in S /\ \A j \in 1..(i-1) : q[j] \notin S]
    ELSE NULL

\* The destination test with the upper end of the range computed in 16 bits
InRangeDst_u16(en, destination_address) ==
    /\ destination_address >= en.destination_address
    /\ destination_address <
           (en.destination_address + en.destination_number_of_elements) % 65536

\* destination and source each within the entry's element range; the sums
\* of two u16_t are computed in int and do not wrap
InRangeDst(en, destination_address) ==
    /\ destination_address >= en.destination_address
    /\ destination_address < en.destination_address + en.destination_number_of_elements
InRangeSrc(en, source_address) ==
    /\ source_address >= en.source_address
    /\ source_address < en.source_address + en.source_number_of_elements

MatchSrcDst(s, source_address, destination_address, net_idx) ==
    {e \in DOMAIN s.entry : /\ InRangeDst(s.entry[e], destination_address)
                            /\ InRangeSrc(s.entry[e], source_address)
                            /\ net_idx = s.entry[e].net_idx}

bt_mesh_search_valid_destination(s, source_address, destination_address, net_idx) ==
    FirstOf(ValidSeq(s), MatchSrcDst(s, source_address, destination_address, net_idx))

bt_mesh_search_invalid_destination(s, source_address, destination_address, net_idx) ==
    FirstOf(InvalidSeq(s), MatchSrcDst(s, source_address, destination_address, net_idx))

bt_mesh_search_valid_destination_without_source(s, destination_address, net_idx) ==
    FirstOf(ValidSeq(s), {e \in DOMAIN s.entry : /\ InRangeDst(s.entry[e], destination_address)
                                                 /\ net_idx = s.entry[e].net_idx})

bt_mesh_search_invalid_destination_with_range(s, source_address, destination_address, destination_number_of_elements, net_idx) ==
    FirstOf(InvalidSeq(s),
            {e \in DOMAIN s.entry : /\ s.entry[e].destination_address >= destination_address
                                    /\ s.entry[e].destination_address <
                                           destination_address + destination_number_of_elements
                                    /\ source_address = s.entry[e].source_address
                                    /\ net_idx = s.entry[e].net_idx})

bt_mesh_search_valid_next_hop_with_net_idx(s, next_hop_address, net_idx) ==
    FirstOf(ValidSeq(s), {e \in DOMAIN s.entry : /\ s.entry[e].next_hop = next_hop_address
                                                 /\ s.entry[e].net_idx = net_idx})

\* ------------------------------------------------------------------------
\* routing_table.c: delete (timer callbacks), refresh, validate, invalidate
\* ------------------------------------------------------------------------
bt_mesh_delete_entry_valid(s, e) ==
    k_mem_slab_free(sys_slist_find_and_remove(s, "valid_list", e), e)

bt_mesh_delete_entry_invalid(s, e) ==
    k_mem_slab_free(sys_slist_find_and_remove(s, "invalid_list", e), e)

bt_mesh_refresh_lifetime_valid(s, e) ==
    k_timer_start(k_timer_stop(s, e), e, "bt_mesh_delete_entry_valid")

bt_mesh_refresh_lifetime_invalid(s, e) ==
    k_timer_start(k_timer_stop(s, e), e, "bt_mesh_delete_entry_invalid")

\* The three parts of bt_mesh_validate_route, each ending where the code
\* releases a semaphore: unlink from the invalid list, link into the valid
\* list, re-arm the timer with the valid deleter.
validate_unlink(s, e) == sys_slist_find_and_remove(k_timer_stop(s, e), "invalid_list", e)
validate_link(s, e) == sys_slist_append(s, "valid_list", e)
validate_rearm(s, e) == k_timer_start(s, e, "bt_mesh_delete_entry_valid")

bt_mesh_validate_route(s, e) ==
    IF e = NULL THEN s
    ELSE validate_rearm(validate_link(validate_unlink(s, e), e), e)

\* The three parts of bt_mesh_invalidate_route
invalidate_unlink(s, e) == sys_slist_find_and_remove(k_timer_stop(s, e), "valid_list", e)
invalidate_link(s, e) == sys_slist_append(s, "invalid_list", e)
invalidate_rearm(s, e) == k_timer_start(s, e, "bt_mesh_delete_entry_invalid")

bt_mesh_invalidate_route(s, e) ==
    IF e = NULL THEN s
    ELSE invalidate_rearm(invalidate_link(invalidate_unlink(s, e), e), e)


\* ------------------------------------------------------------------------
\* aodv_control_messages.c: neighbour list, emissions
\* ------------------------------------------------------------------------
\* hello_msg_list_search_entry: position of the first entry of src, 0 if none
hello_msg_list_search_entry(s, src) ==
    IF \E i \in 1..Len(s.hello_msg_list) : s.hello_msg_list[i].source_address = src
    THEN CHOOSE i \in 1..Len(s.hello_msg_list) :
            /\ s.hello_msg_list[i].source_address = src
            /\ \A j \in 1..(i-1) : s.hello_msg_list[j].source_address # src
    ELSE 0

\* add_neighbour: hello_msg_list_create_entry when the search finds none (the
\* HELLO_MSG_LIFETIME timer starts; age counts the ticks it has run); on an
\* exhausted hello_msg_slab the two field writes land in a stack dummy
add_neighbour(s, neighbour, net_idx) ==
    IF hello_msg_list_search_entry(s, neighbour) # 0 THEN s
    ELSE IF Len(s.hello_msg_list) >= hello_msg_list_NUMBER_OF_ENTRIES THEN s
    ELSE [s EXCEPT !.hello_msg_list =
             Append(@, [source_address |-> neighbour, net_idx |-> net_idx,
                        lifetime |-> "running", age |-> 0, heard |-> 0])]

\* A control message handed to bt_mesh_ctl_send: opcode, ctx.addr, send_ttl,
\* net_idx and the payload fields as they are on the wire (-1: not on the
\* wire); destination_number and destinations are the payload of a RERR
Msg(op, addr, ttl, net_idx) ==
    [ op |-> op, addr |-> addr, ttl |-> ttl, net_idx |-> net_idx,
      source_address |-> 0, destination_address |-> 0, number_of_elements |-> 0,
      hop_count |-> 0, rssi |-> 0, G |-> 0, D |-> 0, U |-> 0, I |-> 0, R |-> 0,
      source_sequence_number |-> 0, destination_sequence_number |-> 0,
      destination_number |-> 0, destinations |-> << >> ]

Wire24(x) == x % 16777216
\* four bytes carry every value of a u32 field
Wire32(x) == x

bt_mesh_ctl_send(s, m) == [s EXCEPT !.out = Append(@, m)]

\* rreq_send: broadcast, or directed to the next hop of the valid route when
\* I is set; destination_sequence_number is added only when U = 0
rreq_send(s, data, TTL, net_idx) ==
    LET entry == bt_mesh_search_valid_destination_without_source(s, data.destination_address, net_idx)
        network_next_hop == IF data.I # 0 /\ entry # NULL
                            THEN s.entry[entry].next_hop
                            ELSE BT_MESH_ADDR_ALL_NODES
    IN  bt_mesh_ctl_send(s,
          [Msg("RREQ", network_next_hop, TTL, net_idx) EXCEPT
              !.source_address = data.source_address,
              !.destination_address = data.destination_address,
              !.number_of_elements = data.source_number_of_elements,
              !.hop_count = data.hop_count,
              !.rssi = ToU8(data.rssi),
              !.G = data.G, !.D = data.D, !.U = data.U, !.I = data.I,
              !.source_sequence_number = Wire24(data.source_sequence_number),
              !.destination_sequence_number =
                  IF data.U = 0 THEN Wire24(data.destination_sequence_number) ELSE -1])

\* rrep_send: send_ttl 0, to the next hop of the reverse route
rrep_send(s, data, net_idx, destination_address) ==
    bt_mesh_ctl_send(s,
      [Msg("RREP", destination_address, 0, net_idx) EXCEPT
          !.R = data.R,
          !.source_address = data.source_address,
          !.destination_address = data.destination_address,
          !.destination_sequence_number = Wire32(data.destination_sequence_number),
          !.hop_count = data.hop_count,
          !.number_of_elements = data.destination_number_of_elements])

\* rwait_send with relay = false: hop_count and next hop from destination_entry
rwait_send(s, rreq_recv_data, destination_entry, rx) ==
    bt_mesh_ctl_send(s,
      [Msg("RWAIT", s.entry[destination_entry].next_hop, 0, rx.net_idx) EXCEPT
          !.destination_address = rreq_recv_data.destination_address,
          !.source_address = rreq_recv_data.source_address,
          !.source_sequence_number = Wire32(rreq_recv_data.source_sequence_number),
          !.hop_count = s.entry[destination_entry].hop_count])

\* rrep_rwait_list_create_entry: -ENOSR when rrep_slab is exhausted
rrep_rwait_list_create_entry(s, entry_data) ==
    IF Len(s.rrep_rwait_list) >= rrep_rwait_list_NUMBER_OF_ENTRIES
    THEN [st |-> s, ret |-> "-ENOSR"]
    ELSE [st |-> [s EXCEPT !.rrep_rwait_list =
                     Append(@, [destination_address |-> entry_data.destination_address,
                                hop_count |-> entry_data.hop_count])],
          ret |-> "0"]

\* rreq_recv_cb without the validation step: the reply leaves while the
\* entry stays in the invalid list
rreq_recv_cb_no_validate(s, n, e) ==
    LET en == s.entry[e]
        data == [ R |-> 1,
                  source_address |-> en.destination_address,
                  destination_address |-> en.source_address,
                  destination_sequence_number |-> s.seq,
                  hop_count |-> 0,
                  destination_number_of_elements |-> bt_mesh_elem_count(n) ]
    IN  rrep_send(k_timer_start(s, e, "bt_mesh_delete_entry_invalid"), data,
                  en.net_idx, en.next_hop)

\* rreq_recv_cb: the RREQ_WAIT timer of a reverse entry at the destination
rreq_recv_cb(s, n, e) ==
    LET s1 == bt_mesh_validate_route(s, e)
        en == s1.entry[e]
        s2 == add_neighbour(s1, en.next_hop, en.net_idx)
        data == [ R |-> 1,
                  source_address |-> en.destination_address,
                  destination_address |-> en.source_address,
                  destination_sequence_number |-> s2.seq,
                  hop_count |-> 0,
                  destination_number_of_elements |-> bt_mesh_elem_count(n) ]
    IN  rrep_send(s2, data, en.net_idx, en.next_hop)


\* ------------------------------------------------------------------------
\* aodv_control_messages.c: RREQ receive
\* ------------------------------------------------------------------------
\* CONFIG_BT_MESH_RELAY
RelayEnabled(n) == TRUE

\* data->rssi of a received RREQ: the rssi byte of the buffer (RREQ_GET_RSSI
\* yields it unsigned) weighted by the hop count, averaged with the local
\* rssi in int arithmetic and stored into an s8_t
RssiAverage(rssi_byte, hop_count, rx_rssi) ==
    ToS8(CDiv(rssi_byte * hop_count + rx_rssi, hop_count + 1))

\* The fields bt_mesh_trans_rreq_recv dissects from the buffer m received
\* with network context rx; oob stands for the three bytes RREQ_GET_DST_SEQ
\* reads past a buffer that carries no destination sequence number
RreqDissect(rx, m, oob) ==
    [ source_address |-> m.source_address,
      destination_address |-> m.destination_address,
      source_number_of_elements |-> m.number_of_elements,
      hop_count |-> m.hop_count,
      rssi |-> RssiAverage(m.rssi, m.hop_count, rx.rssi),
      next_hop |-> rx.addr,
      G |-> m.G, D |-> m.D, U |-> m.U, I |-> m.I,
      destination_sequence_number |->
          IF m.destination_sequence_number = -1 THEN oob ELSE m.destination_sequence_number,
      source_sequence_number |-> m.source_sequence_number ]

\* The combined metric as the C expression computes it (int arithmetic)
Metric(hop_count, rssi) == hop_count * 10 + CDiv(rssi * 10, RSSI_MIN)

\* "If it contains better data, replace"
BetterMetric(data, en) == Metric(data.hop_count, data.rssi) < Metric(en.hop_count, en.rssi)

\* The reverse entry a RREQ leaves: source = RREQ destination, destination =
\* RREQ source
ReverseFields(en, data, src_elems, net_idx) ==
    [en EXCEPT !.source_address = data.destination_address,
               !.destination_address = data.source_address,
               !.destination_sequence_number = data.source_sequence_number,
               !.next_hop = data.next_hop,
               !.source_number_of_elements = src_elems,
               !.destination_number_of_elements = data.source_number_of_elements,
               !.hop_count = data.hop_count,
               !.rssi = data.rssi,
               !.net_idx = net_idx]

\* Destination node, duplicate RREQ while the reverse entry waits
RreqDuplicateAtDestination(s, data, e) ==
    IF BetterMetric(data, s.entry[e])
    THEN [s EXCEPT !.entry[e].destination_sequence_number = data.destination_sequence_number,
                   !.entry[e].hop_count = data.hop_count,
                   !.entry[e].next_hop = data.next_hop,
                   !.entry[e].rssi = data.rssi]
    ELSE s

\* The destination branch without the look at the valid list: a RREQ that
\* arrives after the reply is treated like one that arrives before it
RreqAtDestination_no_drop(s, n, rx, data) ==
    LET i == bt_mesh_search_invalid_destination(s, data.destination_address,
                                                data.source_address, rx.net_idx)
        c == bt_mesh_create_entry_invalid_with_cb(s, "rreq_recv_cb")
    IN  IF i # NULL THEN [st |-> RreqDuplicateAtDestination(s, data, i), ret |-> "0"]
        ELSE IF c.ret
        THEN [st |-> [c.st EXCEPT !.entry[c.e] =
                         ReverseFields(@, data, bt_mesh_elem_count(n), rx.net_idx)],
              ret |-> "0"]
        ELSE [st |-> s, ret |-> "0"]

\* Destination node: the RREQ's destination is a local element
RreqAtDestination(s, n, rx, data) ==
    LET v == bt_mesh_search_valid_destination(s, data.destination_address,
                                              data.source_address, rx.net_idx)
        i == bt_mesh_search_invalid_destination(s, data.destination_address,
                                                data.source_address, rx.net_idx)
        c == bt_mesh_create_entry_invalid_with_cb(s, "rreq_recv_cb")
    IN  IF v # NULL THEN [st |-> s, ret |-> "-ENORREQ"]
        ELSE IF i # NULL THEN [st |-> RreqDuplicateAtDestination(s, data, i), ret |-> "0"]
        ELSE IF c.ret
        THEN [st |-> [c.st EXCEPT !.entry[c.e] =
                         ReverseFields(@, data, bt_mesh_elem_count(n), rx.net_idx)],
              ret |-> "0"]
        ELSE [st |-> s, ret |-> "0"]

\* The route-known branch without the delay hint: the directed RREQ leaves,
\* the originator is told nothing
RreqWithRoute_no_rwait(s, n, rx, m, data, entry) ==
    LET c  == bt_mesh_create_entry_invalid(s)
        s1 == [c.st EXCEPT !.entry[c.e] = ReverseFields(@, data, 1, rx.net_idx)]
        hc == ToU8(data.hop_count + 1)
        d2 == [data EXCEPT !.I = 1, !.hop_count = hc,
                           !.rssi = ToS8(CDiv(m.rssi * (hc + 1) + rx.rssi, hc + 2))]
    IN  IF ~c.ret THEN [st |-> s, ret |-> "-ENOSR"]
        ELSE IF s1.entry[entry].destination_sequence_number >= data.destination_sequence_number
        THEN [st |-> rreq_send(s1, d2, 1, rx.net_idx), ret |-> "0"]
        ELSE [st |-> s1, ret |-> "0"]

\* Intermediate node holding a valid route (entry) to the destination, D = I = 0
RreqWithRoute(s, n, rx, m, data, entry) ==
    LET c  == bt_mesh_create_entry_invalid(s)
        s1 == [c.st EXCEPT !.entry[c.e] = ReverseFields(@, data, 1, rx.net_idx)]
        hc == ToU8(data.hop_count + 1)
        d2 == [data EXCEPT !.I = 1, !.hop_count = hc,
                           !.rssi = ToS8(CDiv(m.rssi * (hc + 1) + rx.rssi, hc + 2))]
        s2 == rreq_send(s1, d2, 1, rx.net_idx)
        s3 == [s2 EXCEPT !.entry[c.e].hop_count = s2.entry[entry].hop_count]
    IN  IF ~c.ret THEN [st |-> s, ret |-> "-ENOSR"]
        ELSE IF s1.entry[entry].destination_sequence_number >= data.destination_sequence_number
        THEN [st |-> rwait_send(s3, d2, c.e, rx), ret |-> "0"]
        ELSE [st |-> s1, ret |-> "0"]

\* The relay branch without the freshness test: every copy that finds the
\* reverse entry is relayed
RreqRelay_every_copy(s, n, rx, data) ==
    LET entry == bt_mesh_search_invalid_destination(s, data.destination_address,
                                                    data.source_address, rx.net_idx)
        c  == bt_mesh_create_entry_invalid(s)
        s1 == [c.st EXCEPT !.entry[c.e] = ReverseFields(@, data, 1, rx.net_idx)]
        d2 == [data EXCEPT !.hop_count = ToU8(data.hop_count + 1)]
    IN  IF entry = NULL
        THEN IF ~c.ret THEN [st |-> s, ret |-> "-ENOSR"]
             ELSE [st |-> rreq_send(s1, data, ToU8(rx.recv_ttl - 1), rx.net_idx), ret |-> "0"]
        ELSE [st |-> rreq_send(bt_mesh_refresh_lifetime_invalid(s, entry), d2,
                               ToU8(rx.recv_ttl - 1), rx.net_idx),
              ret |-> "0"]

\* Intermediate node without a route: create the reverse entry and relay, or
\* refresh it and relay when the RREQ is fresher than the stored one
RreqRelay(s, n, rx, data) ==
    LET entry == bt_mesh_search_invalid_destination(s, data.destination_address,
                                                    data.source_address, rx.net_idx)
        c  == bt_mesh_create_entry_invalid(s)
        s1 == [c.st EXCEPT !.entry[c.e] = ReverseFields(@, data, 1, rx.net_idx)]
        d1 == [data EXCEPT !.next_hop = (data.next_hop + 1) % 65536]
        d2 == [data EXCEPT !.hop_count = ToU8(data.hop_count + 1)]
        s2 == [s EXCEPT !.entry[entry].destination_sequence_number = data.source_sequence_number,
                        !.entry[entry].rssi = data.rssi]
    IN  IF entry = NULL
        THEN IF ~c.ret THEN [st |-> s, ret |-> "-ENOSR"]
             ELSE [st |-> rreq_send(s1, d1, ToU8(rx.recv_ttl - 1), rx.net_idx), ret |-> "0"]
        ELSE IF s.entry[entry].destination_sequence_number < data.source_sequence_number
        THEN [st |-> rreq_send(bt_mesh_refresh_lifetime_invalid(s2, entry), d2,
                               ToU8(rx.recv_ttl - 1), rx.net_idx),
              ret |-> "0"]
        ELSE [st |-> s, ret |-> "0"]

bt_mesh_trans_rreq_recv(s, n, rx, m, oob) ==
    LET data  == RreqDissect(rx, m, oob)
        entry == bt_mesh_search_valid_destination_without_source(s, data.destination_address,
                                                                 rx.net_idx)
    IN  IF bt_mesh_elem_find(n, data.source_address) THEN [st |-> s, ret |-> "-ELOCAL"]
        ELSE IF bt_mesh_elem_find(n, data.destination_address)
        THEN RreqAtDestination(s, n, rx, data)
        ELSE IF ~RelayEnabled(n) THEN [st |-> s, ret |-> "0"]
        ELSE IF entry # NULL /\ data.D = 0 /\ data.I = 0
        THEN RreqWithRoute(s, n, rx, m, data, entry)
        ELSE RreqRelay(s, n, rx, data)

\* ------------------------------------------------------------------------
\* aodv_control_messages.c: RREP receive
\* ------------------------------------------------------------------------
INRANGE(new_seq, existing_seq) == new_seq > existing_seq

ForwardFields(en, rx, m, src_elems) ==
    [en EXCEPT !.source_address = m.source_address,
               !.destination_address = m.destination_address,
               !.destination_sequence_number = m.destination_sequence_number,
               !.next_hop = rx.addr,
               !.hop_count = m.hop_count,
               !.destination_number_of_elements = m.number_of_elements,
               !.source_number_of_elements = src_elems,
               !.net_idx = rx.net_idx]

\* The RREP reached the RREQ originator
RrepAtOriginator(s, n, rx, m) ==
    LET found == bt_mesh_search_valid_destination(s, m.source_address,
                                                  m.destination_address, rx.net_idx)
        newer == found # NULL /\
                 INRANGE(m.destination_sequence_number,
                         s.entry[found].destination_sequence_number)
        s0 == IF newer THEN bt_mesh_invalidate_route(s, found) ELSE s
        c  == bt_mesh_create_entry_valid(s0)
        s1 == [c.st EXCEPT !.entry[c.e] = ForwardFields(@, rx, m, bt_mesh_elem_count(n))]
        s2 == add_neighbour(s1, s1.entry[c.e].next_hop, s1.entry[c.e].net_idx)
    IN  IF found # NULL /\ ~newer THEN [st |-> s, ret |-> "0"]
        ELSE IF ~c.ret THEN [st |-> s0, ret |-> "-ENOSR"]
        ELSE rrep_rwait_list_create_entry(s2, [destination_address |-> m.destination_address,
                                               hop_count |-> m.hop_count])

\* The intermediate branch forwarding the RREP with the hop count it came with
RrepAtIntermediate_same_hop(s, n, rx, m) ==
    LET existing == bt_mesh_search_invalid_destination_with_range(
                        s, m.destination_address, m.source_address,
                        m.number_of_elements, rx.net_idx)
        s1 == [s EXCEPT !.entry[existing].source_number_of_elements = m.number_of_elements,
                        !.entry[existing].source_address = m.destination_address]
        s2 == bt_mesh_validate_route(s1, existing)
        s3 == add_neighbour(s2, s2.entry[existing].next_hop, s2.entry[existing].net_idx)
        c  == bt_mesh_create_entry_valid(s3)
        s4 == [c.st EXCEPT !.entry[c.e] =
                  ForwardFields(@, rx, m, c.st.entry[existing].destination_number_of_elements)]
        s5 == add_neighbour(s4, s4.entry[c.e].next_hop, s4.entry[c.e].net_idx)
        fw == [ R |-> m.R, source_address |-> m.source_address,
                destination_address |-> m.destination_address,
                destination_sequence_number |-> m.destination_sequence_number,
                hop_count |-> m.hop_count,
                destination_number_of_elements |-> m.number_of_elements ]
    IN  IF existing = NULL THEN [st |-> s, ret |-> "0"]
        ELSE IF ~c.ret THEN [st |-> s3, ret |-> "ENOSR"]
        ELSE [st |-> rrep_send(s5, fw, rx.net_idx, s5.entry[existing].next_hop), ret |-> "0"]

\* The RREP reached an intermediate node
RrepAtIntermediate(s, n, rx, m) ==
    LET existing == bt_mesh_search_invalid_destination_with_range(
                        s, m.destination_address, m.source_address,
                        m.number_of_elements, rx.net_idx)
        s1 == [s EXCEPT !.entry[existing].source_number_of_elements = m.number_of_elements,
                        !.entry[existing].source_address = m.destination_address]
        s2 == bt_mesh_validate_route(s1, existing)
        s3 == add_neighbour(s2, s2.entry[existing].next_hop, s2.entry[existing].net_idx)
        c  == bt_mesh_create_entry_valid(s3)
        s4 == [c.st EXCEPT !.entry[c.e] =
                  ForwardFields(@, rx, m, c.st.entry[existing].destination_number_of_elements)]
        s5 == add_neighbour(s4, s4.entry[c.e].next_hop, s4.entry[c.e].net_idx)
        fw == [ R |-> m.R, source_address |-> m.source_address,
                destination_address |-> m.destination_address,
                destination_sequence_number |-> m.destination_sequence_number,
                hop_count |-> ToU8(m.hop_count + 1),
                destination_number_of_elements |-> m.number_of_elements ]
    IN  IF existing = NULL THEN [st |-> s, ret |-> "0"]
        ELSE IF ~c.ret THEN [st |-> s3, ret |-> "ENOSR"]
        ELSE [st |-> rrep_send(s5, fw, rx.net_idx, s5.entry[existing].next_hop), ret |-> "0"]

bt_mesh_trans_rrep_recv(s, n, rx, m) ==
    IF m.source_address = bt_mesh_primary_addr(n)
    THEN RrepAtOriginator(s, n, rx, m)
    ELSE RrepAtIntermediate(s, n, rx, m)


\* ------------------------------------------------------------------------
\* aodv_control_messages.c: RWAIT reception
\* ------------------------------------------------------------------------
\* rwait_send with relay = true: the received RWAIT goes out unchanged along
\* the incoming network context (ctx = rx->ctx)
rwait_relay(s, rx, m) ==
    bt_mesh_ctl_send(s,
      [Msg("RWAIT", rx.addr, rx.recv_ttl, rx.net_idx) EXCEPT
          !.destination_address = m.destination_address,
          !.source_address = m.source_address,
          !.source_sequence_number = Wire32(m.source_sequence_number),
          !.hop_count = m.hop_count])

\* bt_mesh_trans_rwait_recv: at the originator a pending-reply entry with a
\* hop count of at least 1 unless a valid entry (rx->ctx.addr, rx->dst) exists;
\* at an intermediate node the RWAIT is relayed unless an invalid entry
\* (rx->ctx.addr, rx->dst) exists
bt_mesh_trans_rwait_recv(s, n, rx, m) ==
    LET hop_count == IF m.hop_count = 0 THEN 1 ELSE m.hop_count
    IN  IF m.source_address = bt_mesh_primary_addr(n)
        THEN IF bt_mesh_search_valid_destination(s, rx.addr, rx.dst, rx.net_idx) = NULL
             THEN rrep_rwait_list_create_entry(
                      s, [destination_address |-> m.destination_address,
                          hop_count |-> hop_count]).st
             ELSE s
        ELSE IF bt_mesh_search_invalid_destination(s, rx.addr, rx.dst, rx.net_idx) = NULL
             THEN rwait_relay(s, rx, m)
             ELSE s

\* ------------------------------------------------------------------------
\* aodv_control_messages.c: ring search
\* ------------------------------------------------------------------------
\* bt_mesh_search_invalid_rerr_destination: the invalid entry of (source,
\* destination) on net_idx, whose sequence number the first RREQ carries
bt_mesh_search_invalid_rerr_destination(s, source_address, destination_address, net_idx) ==
    bt_mesh_search_invalid_destination(s, source_address, destination_address, net_idx)

\* No ring search running; the fields are the locals of
\* bt_mesh_trans_ring_search (ring_struct, TTL, data, its return value) and,
\* as history, the TTLs it has sent, the expiries of its timer and whether
\* the pending-reply list has been empty at each look so far
RingIdle ==
    [ pc |-> "idle", data |-> Msg("none", 0, 0, 0), net_idx |-> 0, TTL |-> 0,
      ring_flag |-> FALSE, ring_timer |-> "stopped", ret |-> "none",
      sent |-> << >>, expiries |-> 0, quiet |-> TRUE, err |-> "none" ]

\* bt_mesh_trans_ring_search up to its loop: periodic ring timer, TTL 2, the
\* first RREQ
ring_search_begin(s, n, destination_address, net_idx) ==
    LET entry == bt_mesh_search_invalid_rerr_destination(
                     s, bt_mesh_primary_addr(n), destination_address, net_idx)
        data == [ source_address |-> bt_mesh_primary_addr(n),
                  destination_address |-> destination_address,
                  next_hop |-> 0,
                  source_number_of_elements |-> bt_mesh_elem_count(n),
                  G |-> 0, D |-> 0, I |-> 0,
                  U |-> IF entry # NULL THEN 0 ELSE 1,
                  hop_count |-> 0, rssi |-> 0,
                  source_sequence_number |-> s.seq,
                  destination_sequence_number |->
                      IF entry # NULL THEN s.entry[entry].destination_sequence_number
                      ELSE 0 ]
    IN  [ st |-> rreq_send(s, data, RING_INITIAL_TTL, net_idx),
          ring |-> [ pc |-> "poll", data |-> data, net_idx |-> net_idx,
                     TTL |-> RING_INITIAL_TTL, ring_flag |-> FALSE,
                     ring_timer |-> "periodic", ret |-> "none",
                     sent |-> << RING_INITIAL_TTL >>, expiries |-> 0,
                     quiet |-> s.rrep_rwait_list = << >>, err |-> "none" ] ]

\* ring_search_timer: the expiry sets ring_flag; a one-shot timer is then
\* stopped, a periodic one runs on
ring_search_timer(r) ==
    [r EXCEPT !.ring_flag = TRUE,
              !.ring_timer = IF @ = "oneshot" THEN "stopped" ELSE @,
              !.expiries = @ + 1]

RemoveAt(q, i) == SubSeq(q, 1, i - 1) \o SubSeq(q, i + 1, Len(q))

\* One walk of SYS_SLIST_FOR_EACH_CONTAINER over rrep_rwait_list from
\* position i.  The first entry with hop_count # 0 is unlinked and freed, and
\* only then compared with the target: the comparison reads the freed record
\* and may come out either way (same).  If it fails the walk ends, since
\* the unlinked node's next is NULL.
RECURSIVE ring_search_scan(_, _, _, _)
ring_search_scan(list, i, destination_address, same) ==
    IF i > Len(list) THEN [ list |-> list, found |-> "none" ]
    ELSE IF list[i].hop_count # 0
         THEN [ list |-> RemoveAt(list, i),
                found |-> IF same THEN "freed" ELSE "rwait" ]
         ELSE IF list[i].destination_address = destination_address
              THEN [ list |-> RemoveAt(list, i), found |-> "rrep" ]
              ELSE ring_search_scan(list, i + 1, destination_address, same)

\* The ring timer of a search that neither restarts it nor stops it: on a
\* RWAIT entry the timer is restarted one-shot with four times the interval
ring_search_restart(r, found) ==
    IF found = "rwait" THEN [r EXCEPT !.ring_timer = "oneshot"] ELSE r

\* The TTL bump without the test against RREQ_RING_SEARCH_MAX_TTL
ring_search_bump_unlimited(s, r) ==
    LET TTL == ToU8(r.TTL + 1)
        data == [r.data EXCEPT !.source_sequence_number = s.seq]
    IN  [ st |-> rreq_send(s, data, TTL, r.net_idx),
          ring |-> [r EXCEPT !.ring_flag = FALSE, !.TTL = TTL, !.data = data,
                             !.sent = Append(@, TTL)] ]

\* The TTL bump after an expiry: flag reset, TTL + 1, latest sequence number,
\* RREQ; -ENORREP once TTL is RREQ_RING_SEARCH_MAX_TTL
ring_search_bump(s, r) ==
    LET TTL == ToU8(r.TTL + 1)
        data == [r.data EXCEPT !.source_sequence_number = s.seq]
        r1 == [r EXCEPT !.ring_flag = FALSE, !.TTL = TTL, !.data = data,
                        !.sent = Append(@, TTL)]
    IN  [ st |-> rreq_send(s, data, TTL, r.net_idx),
          ring |-> IF TTL = RREQ_RING_SEARCH_MAX_TTL
                   THEN [r1 EXCEPT !.ring_timer = "stopped", !.pc = "done",
                                   !.ret = "-ENORREP"]
                   ELSE r1 ]

\* One pass of the loop of bt_mesh_trans_ring_search, up to its k_sleep
ring_search_poll(s, r, same) ==
    LET sc == ring_search_scan(s.rrep_rwait_list, 1, r.data.destination_address, same)
        s1 == [s EXCEPT !.rrep_rwait_list = sc.list]
        r1 == [ring_search_restart(r, sc.found) EXCEPT
                  !.quiet = @ /\ s.rrep_rwait_list = << >>]
    IN  IF sc.found \in {"rrep", "freed"}
        THEN [ st |-> s1,
               ring |-> [r1 EXCEPT !.ring_timer = "stopped", !.pc = "done", !.ret = "0"] ]
        ELSE IF r1.ring_flag THEN ring_search_bump(s1, r1)
        ELSE [ st |-> s1, ring |-> r1 ]

\* ------------------------------------------------------------------------
\* aodv_control_messages.c, aodv_control_messages.h: the bytes of the control
\* messages.  A buffer is the sequence of its bytes, buf->data[k] being its
\* element k + 1; the target is little-endian.
\* ------------------------------------------------------------------------
\* net_buf_simple_add_mem(&buf, &x, n) / net_buf_simple_add_le16, _le32: the
\* n low bytes of x, lowest first
LE(x, n) == [k \in 1..n |-> (x \div (256 ^ (k - 1))) % 256]

\* buf->data[k]; beyond the length of the buffer it is whatever the memory
\* behind the message holds (oob, byte after byte)
DataAt(buf, k, oob) ==
    IF k + 1 <= Len(buf) THEN buf[k + 1] ELSE oob[k + 1 - Len(buf)]

\* The buffer rreq_send fills from data
RreqBuf(data) ==
    LE(data.source_address, 2) \o LE(data.destination_address, 2)
    \o LE(data.source_number_of_elements, 2) \o LE(data.hop_count, 1)
    \o LE(ToU8(data.rssi), 1)
    \o << data.G + data.D * 2 + data.U * 4 + data.I * 8 >>
    \o LE(data.source_sequence_number, 3)
    \o (IF data.U = 0 THEN LE(data.destination_sequence_number, 3) ELSE << >>)

\* The fields the RREQ_GET_ macros take from a buffer; rssi is the byte as
\* the macro delivers it, before bt_mesh_trans_rreq_recv averages it
RREQ_GET(buf, oob) ==
    [ source_address |-> DataAt(buf, 0, oob) + DataAt(buf, 1, oob) * 256,
      destination_address |-> DataAt(buf, 2, oob) + DataAt(buf, 3, oob) * 256,
      source_number_of_elements |-> DataAt(buf, 4, oob) + DataAt(buf, 5, oob) * 256,
      hop_count |-> DataAt(buf, 6, oob),
      rssi |-> DataAt(buf, 7, oob),
      G |-> DataAt(buf, 8, oob) % 2,
      D |-> (DataAt(buf, 8, oob) \div 2) % 2,
      U |-> (DataAt(buf, 8, oob) \div 4) % 2,
      I |-> (DataAt(buf, 8, oob) \div 8) % 2,
      source_sequence_number |->
          DataAt(buf, 9, oob) + DataAt(buf, 10, oob) * 256 + DataAt(buf, 11, oob) * 65536,
      destination_sequence_number |->
          DataAt(buf, 12, oob) + DataAt(buf, 13, oob) * 256 + DataAt(buf, 14, oob) * 65536 ]

\* The buffer rrep_send fills from data
RrepBuf(data) ==
    LE(data.R, 1) \o LE(data.source_address, 2) \o LE(data.destination_address, 2)
    \o LE(data.destination_sequence_number, 4) \o LE(data.hop_count, 1)
    \o LE(data.destination_number_of_elements, 2)

\* The fields the RREP_GET_ macros take from a buffer.  The four shifted
\* bytes of the sequence number are added in int; the sequence numbers drawn
\* below keep the top bit of the fourth byte clear.
RREP_GET(buf, oob) ==
    [ R |-> DataAt(buf, 0, oob),
      source_address |-> DataAt(buf, 1, oob) + DataAt(buf, 2, oob) * 256,
      destination_address |-> DataAt(buf, 3, oob) + DataAt(buf, 4, oob) * 256,
      destination_sequence_number |->
          DataAt(buf, 5, oob) + DataAt(buf, 6, oob) * 256 + DataAt(buf, 7, oob) * 65536
          + DataAt(buf, 8, oob) * 16777216,
      hop_count |-> DataAt(buf, 9, oob),
      destination_number_of_elements |-> DataAt(buf, 10, oob) + DataAt(buf, 11, oob) * 256 ]

\* The buffer rwait_send fills from data; its first byte is the opcode, a
\* value of the transport that no RWAIT_GET_ macro reads
RwaitBuf(data) ==
    << "TRANS_CTL_OP_RWAIT" >> \o LE(data.destination_address, 2)
    \o LE(data.source_address, 2) \o LE(data.source_sequence_number, 4)
    \o LE(data.hop_count, 1)

\* The fields the RWAIT_GET_ macros take from a buffer
RWAIT_GET(buf, oob) ==
    [ destination_address |-> DataAt(buf, 1, oob) + DataAt(buf, 2, oob) * 256,
      source_address |-> DataAt(buf, 3, oob) + DataAt(buf, 4, oob) * 256,
      source_sequence_number |->
          DataAt(buf, 5, oob) + DataAt(buf, 6, oob) * 256 + DataAt(buf, 7, oob) * 65536
          + DataAt(buf, 8, oob) * 16777216,
      hop_count |-> DataAt(buf, 9, oob) ]

\* The buffer rerr_send fills from a batch entry: the count and one
\* (address, 3-byte sequence number) tuple per destination of its list
RECURSIVE RerrTuples(_)
RerrTuples(destinations) ==
    IF destinations = << >> THEN << >>
    ELSE LE(Head(destinations).destination_address, 2)
         \o LE(Head(destinations).destination_sequence_number, 3)
         \o RerrTuples(Tail(destinations))
RerrBuf(data) == LE(data.destination_number, 1) \o RerrTuples(data.destinations)

\* The count and the tuples bt_mesh_trans_rerr_recv takes from a buffer with
\* RERR_GET_DST_NUM, RERR_GET_DST_ADDR and RERR_GET_DST_SEQ_NUM
RERR_GET(buf, oob) ==
    [ destination_number |-> DataAt(buf, 0, oob),
      destinations |->
          [ j \in 1..DataAt(buf, 0, oob) |->
              LET i == (j - 1) * 2 + (j - 1) * 3 + 1
              IN  [ destination_address |->
                        DataAt(buf, i, oob) + DataAt(buf, i + 1, oob) * 256,
                    destination_sequence_number |->
                        DataAt(buf, i + 2, oob) + DataAt(buf, i + 3, oob) * 256
                        + DataAt(buf, i + 4, oob) * 65536 ] ] ]

\* What a step x of the ring search (ring_search_begin or ring_search_poll,
\* entered with nothing sent yet) leaves when the bt_mesh_ctl_send under its
\* rreq_send returns err: rreq_send hands err back, the search drops it.
\* A RREQ that the transport refused is not on the air.  As history, err of
\* the search is the value the rreq_send of its latest step returned, "none"
\* for a step that sent nothing.
ring_search_sent(x, err) ==
    [ st   |-> IF err = "0" THEN x.st ELSE [x.st EXCEPT !.out = << >>],
      ring |-> [x.ring EXCEPT !.err = IF x.st.out = << >> THEN "none" ELSE err] ]

\* ------------------------------------------------------------------------
\* aodv_control_messages.c: link drop, RERR batching, RERR and HELLO receive
\* ------------------------------------------------------------------------
\* bt_mesh_invalidate_rerr_route is called by search_callback and defined in
\* no file of the tree; it is taken as the invalidation the design describes:
\* the entry leaves the valid list for the invalid list.
bt_mesh_invalidate_rerr_route(s, e) == bt_mesh_invalidate_route(s, e)

\* Exact match of source, destination and net_idx in the valid list
bt_mesh_search_valid_destination_with_net_idx(s, source_address, destination_address, net_idx) ==
    FirstOf(ValidSeq(s), {e \in DOMAIN s.entry : /\ s.entry[e].destination_address = destination_address
                                                 /\ s.entry[e].source_address = source_address
                                                 /\ s.entry[e].net_idx = net_idx})

\* hello_msg_list_delete_entry of the record at position i (0: the record is
\* linked no longer, it has been unlinked and freed before): unlink and free.
\* The timer of the record is not stopped.
hello_msg_list_delete_entry(s, i) ==
    IF i = 0 THEN [s EXCEPT !.hello_msg_slab.twice = TRUE]
    ELSE [s EXCEPT !.hello_msg_list = RemoveAt(@, i),
                   !.hello_msg_slab.armed = @ \/ s.hello_msg_list[i].lifetime = "running"]

\* remove_neighbour: the neighbour's record goes when no valid entry has the
\* neighbour as next hop on net_idx
\* remove_neighbour without the look at the valid list
remove_neighbour_always(s, neighbour, net_idx) ==
    LET i == hello_msg_list_search_entry(s, neighbour)
    IN  IF i = 0 THEN s ELSE hello_msg_list_delete_entry(s, i)

remove_neighbour(s, neighbour, net_idx) ==
    LET i == hello_msg_list_search_entry(s, neighbour)
    IN  IF bt_mesh_search_valid_next_hop_with_net_idx(s, neighbour, net_idx) # NULL THEN s
        ELSE IF i = 0 THEN s
        ELSE hello_msg_list_delete_entry(s, i)

\* rerr_list_search_entry: position of the first batch for (next_hop, net_idx)
rerr_list_search_entry(s, next_hop, net_idx) ==
    IF \E k \in 1..Len(s.rerr_list) :
          s.rerr_list[k].next_hop = next_hop /\ s.rerr_list[k].net_idx = net_idx
    THEN CHOOSE k \in 1..Len(s.rerr_list) :
            /\ s.rerr_list[k].next_hop = next_hop /\ s.rerr_list[k].net_idx = net_idx
            /\ \A j \in 1..(k-1) : ~ ( /\ s.rerr_list[j].next_hop = next_hop
                                       /\ s.rerr_list[j].net_idx = net_idx )
    ELSE 0

\* The batching part of search_callback for the matched entry F and the key
\* (next_hop, net_idx) of its reverse route.  destination_list_create_entry
\* returns -ENOSR with its pointer left NULL when destination_slab is
\* exhausted; the result is not looked at and the two fields are written
\* through the pointer.  st: the state when the write is lost, null: whether
\* the write went through NULL, at: the state at that write.
rerr_batch(s, next_hop, net_idx, F) ==
    LET k == rerr_list_search_entry(s, next_hop, net_idx)
        full == s.destination_slab >= DESTINATION_LIST_NUMBER_OF_ENTRIES
        d == [ destination_address |-> F.destination_address,
               destination_sequence_number |-> F.destination_sequence_number ]
        created == [s EXCEPT !.rerr_list =
                       Append(@, [ destination_number |-> 1, next_hop |-> next_hop,
                                   net_idx |-> F.net_idx, destination_list |-> << >> ])]
    IN  IF k # 0
        THEN IF \E j \in 1..Len(s.rerr_list[k].destination_list) :
                   s.rerr_list[k].destination_list[j].destination_address = F.destination_address
             THEN [st |-> s, null |-> FALSE, at |-> s]
             ELSE IF full
                  THEN [st |-> [s EXCEPT !.rerr_list[k].destination_number = ToU8(@ + 1)],
                        null |-> TRUE, at |-> s]
                  ELSE [st |-> [s EXCEPT !.rerr_list[k].destination_list = Append(@, d),
                                         !.rerr_list[k].destination_number = ToU8(@ + 1),
                                         !.destination_slab = @ + 1],
                        null |-> FALSE, at |-> s]
        ELSE IF full
             THEN [st |-> created, null |-> TRUE, at |-> created]
             ELSE [st |-> [created EXCEPT
                              !.rerr_list[Len(created.rerr_list)].destination_list = << d >>,
                              !.destination_slab = @ + 1],
                   null |-> FALSE, at |-> created]

\* search_callback whose terminal branch leaves the matched entry where it is
search_callback_no_invalidate(s, n, entry_found, temp, u) ==
    LET F == s.entry[entry_found]
    IN  [ st |-> remove_neighbour(s, F.next_hop, F.net_idx),
          temp |-> temp, fault |-> FALSE ]

\* search_callback(entry_found, &temp).  u holds what an access through a
\* NULL pointer does in the build at hand: u.fault, the access stops the
\* handler there; otherwise a read delivers u.wild and a write is lost.
\* Such accesses are the reads of entry->next_hop and entry->net_idx when
\* the reverse route is not in the valid list, the writes after a failed
\* destination_list_create_entry, and the read of (*temp)->node when the
\* matched entry is the last of the list.
search_callback(s, n, entry_found, temp, u) ==
    LET F == s.entry[entry_found]
    IN  IF F.source_address = bt_mesh_primary_addr(n)
        THEN [ st |-> remove_neighbour(bt_mesh_invalidate_rerr_route(s, entry_found),
                                       F.next_hop, F.net_idx),
               temp |-> temp, fault |-> FALSE ]
        ELSE LET entry == bt_mesh_search_valid_destination_with_net_idx(s,
                              F.destination_address, F.source_address, F.net_idx)
                 next_hop == IF entry = NULL THEN u.wild ELSE s.entry[entry].next_hop
                 net_idx == IF entry = NULL THEN u.wild ELSE s.entry[entry].net_idx
                 b == rerr_batch(s, next_hop, net_idx, F)
                 temp1 == IF entry = temp /\ temp # NULL /\ b.st.entry[temp].node # NULL
                          THEN b.st.entry[temp].node ELSE temp
                 s2 == remove_neighbour(bt_mesh_invalidate_rerr_route(b.st, entry_found),
                                        F.next_hop, F.net_idx)
                 s3 == remove_neighbour(bt_mesh_invalidate_rerr_route(s2, entry),
                                        next_hop, net_idx)
             IN  IF u.fault /\ entry = NULL THEN [st |-> s, temp |-> temp, fault |-> TRUE]
                 ELSE IF u.fault /\ b.null THEN [st |-> b.at, temp |-> temp, fault |-> TRUE]
                 ELSE IF u.fault /\ temp = NULL THEN [st |-> b.st, temp |-> temp, fault |-> TRUE]
                 ELSE [st |-> s3, temp |-> temp1, fault |-> FALSE]

\* The entries a walk with callback hands to search_callback: those of the
\* next hop on net_idx, of one destination (RERR receive) or of any (-1)
KeyMatch(en, key) ==
    /\ key.destination_address \in {-1, en.destination_address}
    /\ key.next_hop = en.next_hop
    /\ key.net_idx = en.net_idx

\* SYS_SLIST_FOR_EACH_CONTAINER_SAFE over the valid list from iterator_entry,
\* as in bt_mesh_search_valid_nexthop_net_idx_with_cb and
\* bt_mesh_search_valid_destination_nexthop_net_idx_with_cb: temp is the
\* successor read before the body, the callback may move it on, and the walk
\* goes to whatever temp names then, in whichever list that entry is by now.
RECURSIVE valid_list_for_each_safe(_, _, _, _, _, _)
valid_list_for_each_safe(s, n, iterator_entry, key, u, fuel) ==
    IF iterator_entry = NULL \/ fuel = 0 THEN [st |-> s, fault |-> FALSE]
    ELSE LET temp == s.entry[iterator_entry].node
         IN  IF KeyMatch(s.entry[iterator_entry], key)
             THEN LET r == search_callback(s, n, iterator_entry, temp, u)
                  IN  IF r.fault THEN [st |-> r.st, fault |-> TRUE]
                      ELSE valid_list_for_each_safe(r.st, n, r.temp, key, u, fuel - 1)
             ELSE valid_list_for_each_safe(s, n, temp, key, u, fuel - 1)

\* Steps a walk takes at most: each entry once in either list
WalkFuel == 2 * NUMBER_OF_ENTRIES + 2

\* rerr_send of one batch: the count byte, then address and 24-bit sequence
\* number of each record of its destination list
rerr_send(s, data) ==
    bt_mesh_ctl_send(s,
      [Msg("RERR", data.next_hop, 0, data.net_idx) EXCEPT
          !.destination_number = data.destination_number,
          !.destinations =
              [j \in 1..Len(data.destination_list) |->
                  [ destination_address |-> data.destination_list[j].destination_address,
                    destination_sequence_number |->
                        Wire24(data.destination_list[j].destination_sequence_number) ]]])

\* The loop that empties rerr_list: rerr_send, then rerr_list_delete_entry,
\* whose destination_list_delete_entry gives each destination record to
\* rerr_slab, so that destination_slab gets no block back
RECURSIVE rerr_list_flush(_)
rerr_list_flush(s) ==
    IF s.rerr_list = << >> THEN s
    ELSE rerr_list_flush([rerr_send(s, Head(s.rerr_list)) EXCEPT !.rerr_list = Tail(@)])

\* hello_msg_list_entry_expiry_fn for the record at position i
hello_msg_list_entry_expiry_fn(s, n, i, u) ==
    LET entry == s.hello_msg_list[i]
        s0 == [s EXCEPT !.hello_msg_list[i].lifetime = "stopped"]
        w == valid_list_for_each_safe(s0, n, s0.valid_list.head,
                 [ destination_address |-> -1, next_hop |-> entry.source_address,
                   net_idx |-> entry.net_idx ], u, WalkFuel)
    IN  IF w.fault THEN w.st
        ELSE hello_msg_list_delete_entry(rerr_list_flush(w.st),
                 hello_msg_list_search_entry(w.st, entry.source_address))

\* The loop of bt_mesh_trans_rerr_recv over the tuples of the buffer
RECURSIVE rerr_recv_loop(_, _, _, _, _, _)
rerr_recv_loop(s, n, rx, m, i, u) ==
    IF i > m.destination_number THEN [st |-> s, fault |-> FALSE]
    ELSE LET w == valid_list_for_each_safe(s, n, s.valid_list.head,
                      [ destination_address |-> m.destinations[i].destination_address,
                        next_hop |-> rx.addr, net_idx |-> rx.net_idx ], u, WalkFuel)
         IN  IF w.fault THEN w ELSE rerr_recv_loop(w.st, n, rx, m, i + 1, u)

bt_mesh_trans_rerr_recv(s, n, rx, m, u) ==
    LET w == rerr_recv_loop(s, n, rx, m, 1, u)
    IN  IF w.fault THEN w.st ELSE rerr_list_flush(w.st)

\* bt_mesh_trans_hello_msg_recv: the timer of a known neighbour is stopped,
\* initialised and started again; an unknown source changes nothing
\* bt_mesh_trans_hello_msg_recv without the restart of the timer
bt_mesh_trans_hello_msg_recv_no_restart(s, src) == s

bt_mesh_trans_hello_msg_recv(s, src) ==
    LET i == hello_msg_list_search_entry(s, src)
    IN  IF i = 0 THEN s
        ELSE [s EXCEPT !.hello_msg_list[i].lifetime = "running",
                       !.hello_msg_list[i].age = 0]

\* ------------------------------------------------------------------------
\* State
\* ------------------------------------------------------------------------
VARIABLES
    node,   \* node[n]: the routing state of node n (see InitNode)
    last,   \* the operation that ran last: handler or callback, input, result
    relayed,\* history: the RREQs the node has relayed so far (RreqKey)
    thread, \* the receive thread inside the routing table: position, borrowed entry
    ring,   \* ring[n]: the ring search running at node n, its locals and timer
    net,    \* control messages on the air: [to, from, rssi, m]
    sem,    \* sem[x]: the count of the binary semaphore x of a list
    run     \* run[t]: the semaphore operations thread t has still to do, and
            \* the semaphores it has taken and not given back

vars == << node, last, relayed, thread, ring, net, sem, run >>

\* The semaphores of the five lists (K_SEM_DEFINE(x, 1, 1)), in the order the
\* lists are named: valid, invalid, pending-reply, RERR-batch, neighbour
Sems == << "valid_list_sem", "invalid_list_sem", "rrep_rwait_list_sem",
           "rerr_list_sem", "hello_msg_list_sem" >>

\* The threads of the scheduling model: the worker of the receive upcalls,
\* the thread of the timer callbacks, the caller inside the ring search
Threads == {"recv", "timer", "caller"}

\* A thread outside every handler
NotRunning == [todo |-> << >>, holds |-> {}]

\* The receive thread between two handlers
ThreadIdle == [pc |-> "idle", e |-> NULL, kind |-> "none", d |-> 0]

\* What identifies the copies of one flooded RREQ
RreqKey(m, net_idx) ==
    [ source_address |-> m.source_address,
      destination_address |-> m.destination_address,
      net_idx |-> net_idx,
      source_sequence_number |-> m.source_sequence_number ]

\* The flooded (not directed) RREQs among the messages a handler emitted
FloodedOut(s) ==
    { i \in 1..Len(s.out) : s.out[i].op = "RREQ" /\ s.out[i].I = 0 }

NoMsg == Msg("none", 0, 0, 0)
Op(op, n, rx, m, e, ret) == [op |-> op, n |-> n, rx |-> rx, m |-> m, e |-> e, ret |-> ret]
NoRx == [addr |-> 0, net_idx |-> 0, recv_ttl |-> 0, rssi |-> 0, dst |-> 0]

\* A handler starts with nothing emitted
Fresh(s) == [s EXCEPT !.out = << >>]

\* ------------------------------------------------------------------------
\* One node (B, address 2) and its environment: neighbours A (1) and C (3)
\* ------------------------------------------------------------------------
Self == 2
NetIdx == 0
Neighbours == {1, 3}

\* The network context of a RREQ of originator o heard from neighbour a, and
\* the hop count it then carries: 0 straight from the originator, 1 after one
\* relay
RreqRx(o) ==
    { [addr |-> a, net_idx |-> NetIdx,
       recv_ttl |-> IF a = o THEN 2 ELSE 1,
       rssi |-> IF a = 1 THEN -60 ELSE -70,
       hop |-> IF a = o THEN 0 ELSE 1] : a \in Neighbours }

\* RREQs of originator o for destination d
RreqSet(o, d, Ds) ==
    { [Msg("RREQ", BT_MESH_ADDR_ALL_NODES, 2, NetIdx) EXCEPT
          !.source_address = o, !.destination_address = d,
          !.number_of_elements = 1, !.hop_count = 0, !.rssi = ToU8(-60),
          !.D = f, !.source_sequence_number = sq, !.destination_sequence_number = 0]
      : f \in Ds, sq \in 0..MaxSeq }

RrepRx == { [addr |-> 3, net_idx |-> NetIdx, recv_ttl |-> 2, rssi |-> -60, dst |-> Self] }

\* RREPs of node 3 for the discovery 1 -> 3, with the hop count of a reply
\* of node 3 itself and the largest one the field holds
RrepSet ==
    { [Msg("RREP", Self, 0, NetIdx) EXCEPT
          !.R = 1, !.source_address = 1, !.destination_address = 3,
          !.number_of_elements = 1, !.hop_count = h,
          !.destination_sequence_number = sq]
      : sq \in 0..MaxSeq, h \in {0, 255} }

RrepInputs == { [rx |-> rx, m |-> m] : rx \in RrepRx, m \in RrepSet }

Init ==
    /\ node = [n \in Nodes |-> InitNode]
    /\ last = Op("init", 0, NoRx, NoMsg, NULL, "0")
    /\ relayed = {}
    /\ thread = ThreadIdle
    /\ ring = [n \in Nodes |-> RingIdle]
    /\ net = {}
    /\ sem = [x \in {Sems[i] : i \in 1..Len(Sems)} |-> 1]
    /\ run = [t \in Threads |-> NotRunning]

\* The receptions of a RREQ of originator o for destination d: network
\* context and buffer
RreqInputs(o, d, Ds) ==
    { [rx |-> [addr |-> x.addr, net_idx |-> x.net_idx, recv_ttl |-> x.recv_ttl,
               rssi |-> x.rssi, dst |-> BT_MESH_ADDR_ALL_NODES],
       m  |-> [m0 EXCEPT !.hop_count = x.hop, !.ttl = x.recv_ttl]]
      : x \in RreqRx(o), m0 \in RreqSet(o, d, Ds) }

\* ctl_recv hands a RREQ, one of In, to bt_mesh_trans_rreq_recv
RecvRREQ(n, In) ==
    \E i \in In :
        \E r \in { bt_mesh_trans_rreq_recv(Fresh(node[n]), n, i.rx, i.m, 0) } :
            /\ node' = [node EXCEPT ![n] = r.st]
            /\ last' = Op("rreq_recv", n, i.rx, i.m, NULL, r.ret)
            /\ relayed' = IF FloodedOut(r.st) # {}
                          THEN relayed \cup {RreqKey(i.m, i.rx.net_idx)}
                          ELSE relayed
            /\ UNCHANGED << sem, run, thread, ring, net >>

\* ctl_recv hands a RREP, one of In, to bt_mesh_trans_rrep_recv
RecvRREP(n, In) ==
    \E i \in In :
        \E r \in { bt_mesh_trans_rrep_recv(Fresh(node[n]), n, i.rx, i.m) } :
            /\ node' = [node EXCEPT ![n] = r.st]
            /\ last' = Op("rrep_recv", n, i.rx, i.m, NULL, r.ret)
            /\ UNCHANGED << sem, run, relayed, thread, ring, net >>

\* ctl_recv hands a RWAIT, one of In, to bt_mesh_trans_rwait_recv
RecvRWAIT(n, In) ==
    \E i \in In :
        /\ node' = [node EXCEPT ![n] = bt_mesh_trans_rwait_recv(Fresh(@), n, i.rx, i.m)]
        /\ last' = Op("rwait_recv", n, i.rx, i.m, NULL, "0")
        /\ UNCHANGED << sem, run, relayed, thread, ring, net >>

\* Expiry of the lifetime timer of block e: the timer is one-shot, its
\* callback is the one it was last armed with
TimerCallback(s, n, e) ==
    LET cb == s.entry[e].lifetime
        s0 == Fresh(k_timer_stop(s, e))
    IN  CASE cb = "bt_mesh_delete_entry_valid" -> bt_mesh_delete_entry_valid(s0, e)
          [] cb = "bt_mesh_delete_entry_invalid" -> bt_mesh_delete_entry_invalid(s0, e)
          [] cb = "rreq_recv_cb" -> rreq_recv_cb(s0, n, e)

TimerExpire(n) ==
    \E e \in DOMAIN node[n].entry :
        /\ node[n].entry[e].lifetime # "stopped"
        /\ node' = [node EXCEPT ![n] = TimerCallback(node[n], n, e)]
        /\ last' = Op(node[n].entry[e].lifetime, n, NoRx, NoMsg, e, "0")
        /\ UNCHANGED << sem, run, relayed, thread, ring, net >>

\* The lower layer consumes a sequence number (bt_mesh.seq) for a PDU it sends
SeqAdvance(n) ==
    /\ node[n].seq < MaxSeq
    /\ node' = [node EXCEPT ![n].seq = @ + 1]
    /\ last' = Op("seq", n, NoRx, NoMsg, NULL, "0")
    /\ UNCHANGED << sem, run, relayed, thread, ring, net >>

\* The node as the destination of discoveries: RREQs addressed to it, of its
\* two neighbours and of a node two hops away
Originators == {1, 3, 4}

NextDest ==
    \/ \E o \in Originators : RecvRREQ(Self, RreqInputs(o, Self, {0}))
    \/ TimerExpire(Self)
    \/ SeqAdvance(Self)

SpecDest == Init /\ [][NextDest]_vars

\* The node as destination of originators at the ends of the 16-bit address
\* space, with 0, 1 or 2 elements, heard over neighbour 1
SearchRreqInputs ==
    { [i EXCEPT !.m.source_address = o, !.m.number_of_elements = c]
      : i \in { j \in RreqInputs(1, Self, {0}) :
                  j.rx.addr = 1 /\ j.m.source_sequence_number = 0 },
        o \in {0, 65534, 65535}, c \in 0..2 }

NextSearch ==
    \/ RecvRREQ(Self, SearchRreqInputs)
    \/ TimerExpire(Self)

SpecSearch == Init /\ [][NextSearch]_vars

\* The node as a relay of the discovery 1 -> 3; the RREQs carry the last
\* sequence number of node 3 their originator knows
RelayRreqInputs ==
    { [i EXCEPT !.m.destination_sequence_number = q]
      : i \in RreqInputs(1, 3, {0, 1}), q \in 0..MaxSeq }

NextRelay ==
    \/ RecvRREQ(Self, RelayRreqInputs)
    \/ RecvRREP(Self, RrepInputs)
    \/ TimerExpire(Self)

SpecRelay == Init /\ [][NextRelay]_vars

\* The metric rule over its range: RREQs of originator 1 for the local node,
\* hop counts 0..MaxHop, received at every fifth rssi of -90..0 from either
\* neighbour.  The rssi byte of the buffer is 0, so that data->rssi, the
\* average, stays within -90..0 at every hop count.
MaxHop == 1
MetricRssi == { 0 - 5 * k : k \in 0..18 }
MetricInputs ==
    { [rx |-> [addr |-> a, net_idx |-> NetIdx, recv_ttl |-> 2, rssi |-> r,
               dst |-> BT_MESH_ADDR_ALL_NODES],
       m  |-> [Msg("RREQ", BT_MESH_ADDR_ALL_NODES, 2, NetIdx) EXCEPT
                  !.source_address = 1, !.destination_address = Self,
                  !.number_of_elements = 1, !.hop_count = h, !.rssi = 0,
                  !.source_sequence_number = 1, !.destination_sequence_number = 0]]
      : a \in Neighbours, r \in MetricRssi, h \in 0..MaxHop }

NextMetric == RecvRREQ(Self, MetricInputs)

SpecMetric == Init /\ [][NextMetric]_vars

\* ------------------------------------------------------------------------
\* Link drop and RERR
\* ------------------------------------------------------------------------
\* Ticks the timer of a neighbour record runs (K_SECONDS(20) in
\* aodv_control_messages.h, in ticks of ten seconds)
HELLO_MSG_LIFETIME == 2

\* What an access through a NULL pointer may do (see search_callback)
NullAccess == [wild : {0, 1}, fault : BOOLEAN]

\* Expiry of the timer of a neighbour record that has run for at least
\* lifetime ticks; the timer is one-shot
HelloExpire(n, lifetime) ==
    \E i \in 1..Len(node[n].hello_msg_list), u \in NullAccess :
        /\ node[n].hello_msg_list[i].lifetime = "running"
        /\ node[n].hello_msg_list[i].age >= lifetime
        /\ node' = [node EXCEPT ![n] = hello_msg_list_entry_expiry_fn(Fresh(@), n, i, u)]
        /\ last' = Op("hello_expiry", n,
                      [NoRx EXCEPT !.addr = node[n].hello_msg_list[i].source_address,
                                   !.net_idx = node[n].hello_msg_list[i].net_idx],
                      NoMsg, NULL, IF u.fault THEN "fault" ELSE "wild")
        /\ UNCHANGED << sem, run, relayed, thread, ring, net >>

\* ctl_recv hands a RERR, one of In, to bt_mesh_trans_rerr_recv
RecvRERR(n, In) ==
    \E i \in In, u \in NullAccess :
        /\ node' = [node EXCEPT ![n] = bt_mesh_trans_rerr_recv(Fresh(@), n, i.rx, i.m, u)]
        /\ last' = Op("rerr_recv", n, i.rx, i.m, NULL, IF u.fault THEN "fault" ELSE "wild")
        /\ UNCHANGED << sem, run, relayed, thread, ring, net >>

\* bt_mesh_trans_hello_msg_recv is called with the source of a heartbeat
RecvHELLO(n, Srcs) ==
    \E src \in Srcs :
        /\ node' = [node EXCEPT ![n] =
                LET s == bt_mesh_trans_hello_msg_recv(Fresh(node[n]), src)
                IN  [ s EXCEPT !.hello_msg_list =
                        [ i \in 1..Len(s.hello_msg_list) |->
                            IF s.hello_msg_list[i].source_address = src
                            THEN [s.hello_msg_list[i] EXCEPT !.heard = 0]
                            ELSE s.hello_msg_list[i] ] ] ]
        /\ last' = Op("hello_msg_recv", n, [NoRx EXCEPT !.addr = src], NoMsg, NULL, "0")
        /\ UNCHANGED << sem, run, relayed, thread, ring, net >>

\* RREPs that end discoveries of the local node: for destination d, heard
\* from neighbour a
OwnRrepAll ==
    { [rx |-> [addr |-> a, net_idx |-> NetIdx, recv_ttl |-> 2, rssi |-> -60, dst |-> Self],
       m  |-> [Msg("RREP", Self, 0, NetIdx) EXCEPT
                  !.R = 1, !.source_address = Self, !.destination_address = d,
                  !.number_of_elements = 1, !.hop_count = IF a = d THEN 0 ELSE 1,
                  !.destination_sequence_number = 0]]
      : a \in Neighbours, d \in {3, 4} }
\* ... node 3 is reached directly
OwnRrepInputs == { i \in OwnRrepAll : i.rx.addr = 3 \/ i.m.destination_address = 4 }

\* RREQs and RREPs of the discovery 1 -> 3, first sequence numbers; the
\* RREQ is heard from its originator
LinkRreqInputs ==
    { i \in RreqInputs(1, 3, {0}) : i.m.source_sequence_number = 0 /\ i.rx.addr = 1 }
RelayRrepInputs ==
    { i \in RrepInputs : i.m.hop_count = 0 /\ i.m.destination_sequence_number = 0 }

\* RERRs of the neighbours: one or two unreachable destinations
RerrInputs ==
    { [rx |-> [addr |-> a, net_idx |-> NetIdx, recv_ttl |-> 0, rssi |-> -60, dst |-> Self],
       m  |-> [Msg("RERR", Self, 0, NetIdx) EXCEPT
                  !.destination_number = Len(ds),
                  !.destinations = [j \in 1..Len(ds) |->
                      [destination_address |-> ds[j], destination_sequence_number |-> 0]]]]
      : a \in Neighbours, ds \in { << 1 >>, << 3 >>, << 3, 4 >> } }

\* One tick of the clock of node n: every running timer of a neighbour
\* record has run one tick more, and every neighbour was last heard one
\* tick longer ago (heard: ticks since the record was made or the last
\* HELLO of its source arrived, whichever is later; counted up to
\* HELLO_MSG_LIFETIME).  A timer that is due fires before the next tick.
Tick(n) ==
    /\ Len(node[n].hello_msg_list) > 0
    /\ \A i \in 1..Len(node[n].hello_msg_list) :
           node[n].hello_msg_list[i].lifetime = "running"
               => node[n].hello_msg_list[i].age < HELLO_MSG_LIFETIME
    /\ node' = [node EXCEPT ![n].hello_msg_list =
           [ i \in 1..Len(node[n].hello_msg_list) |->
               [ node[n].hello_msg_list[i] EXCEPT
                   !.age = IF node[n].hello_msg_list[i].lifetime = "running"
                           THEN @ + 1 ELSE @,
                   !.heard = IF @ < HELLO_MSG_LIFETIME THEN @ + 1 ELSE @ ] ] ]
    /\ last' = Op("tick", n, NoRx, NoMsg, NULL, "0")
    /\ UNCHANGED << sem, run, relayed, thread, ring, net >>

\* The expiry of the lifetime timer of an entry of the invalid list
InvalidExpire(n) == TimerExpire(n) /\ last'.op = "bt_mesh_delete_entry_invalid"

\* The node with routes of its own, to 3 and 4 over its neighbours 1 and 3,
\* which fall silent at any time
NextDrop ==
    \/ RecvRREP(Self, OwnRrepInputs)
    \/ TimerExpire(Self)
    \/ HelloExpire(Self, 0)
    \/ RecvHELLO(Self, {3, 4})

SpecDrop == Init /\ [][NextDrop]_vars

\* The node with routes of its own under the clock: the timer of a
\* neighbour record fires HELLO_MSG_LIFETIME ticks after its last start
NextHello ==
    \/ RecvRREP(Self, OwnRrepInputs)
    \/ TimerExpire(Self)
    \/ HelloExpire(Self, HELLO_MSG_LIFETIME)
    \/ RecvHELLO(Self, {1, 3, 4})
    \/ Tick(Self)

SpecHello == Init /\ [][NextHello]_vars

\* The node with routes of its own, whose neighbours fall silent and whose
\* neighbour 3 reports unreachable destinations
NextNeighbour ==
    \/ RecvRREP(Self, OwnRrepInputs)
    \/ TimerExpire(Self)
    \/ HelloExpire(Self, 0)
    \/ RecvRERR(Self, { i \in RerrInputs : i.rx.addr = 3 })

SpecNeighbour == Init /\ [][NextNeighbour]_vars

\* The node as a relay of 1 -> 3, whose neighbours fall silent or report
\* unreachable destinations; invalid entries expire, the lifetime of the
\* valid ones outlasts the run
NextRerr ==
    \/ RecvRREQ(Self, LinkRreqInputs)
    \/ RecvRREP(Self, RelayRrepInputs)
    \/ InvalidExpire(Self)
    \/ HelloExpire(Self, 0)
    \/ RecvRERR(Self, RerrInputs)

SpecRerr == Init /\ [][NextRerr]_vars

\* ------------------------------------------------------------------------
\* Properties of the destination role (SpecDest)
\* ------------------------------------------------------------------------
\* The entries of list q that hold the route source src -> destination dst
EntriesFor(s, q, src, dst) ==
    { e \in SeqSet(q) : /\ s.entry[e].source_address = src
                        /\ s.entry[e].destination_address = dst }

\* The step just taken was the reception of a RREQ addressed to the local
\* node, and before it the table held no entry, valid or invalid, for its
\* originator
FirstRreqAtDestination ==
    /\ last'.op = "rreq_recv"
    /\ last'.m.destination_address = Self
    /\ EntriesFor(node[Self], ValidSeq(node[Self]), Self, last'.m.source_address) = {}
    /\ EntriesFor(node[Self], InvalidSeq(node[Self]), Self, last'.m.source_address) = {}

\* ... exactly one reverse entry was appended to the invalid list, armed with
\* the RREQ_WAIT callback, and nothing was sent
OneReverseEntryCreated ==
    \E e \in Slots :
        /\ ~ node[Self].entry[e].alloc
        /\ InvalidSeq(node'[Self]) = Append(InvalidSeq(node[Self]), e)
        /\ ValidSeq(node'[Self]) = ValidSeq(node[Self])
        /\ LiveSlots(node'[Self]) = LiveSlots(node[Self]) \cup {e}
        /\ node'[Self].entry[e].source_address = last'.m.destination_address
        /\ node'[Self].entry[e].destination_address = last'.m.source_address
        /\ node'[Self].entry[e].next_hop = last'.rx.addr
        /\ node'[Self].entry[e].lifetime = "rreq_recv_cb"
        /\ node'[Self].out = << >>

\* The step just taken was the expiry of a RREQ_WAIT timer: its entry moved
\* from the invalid to the valid list and exactly one RREP, hop count 0,
\* carrying the node's current sequence number, went to the entry's next hop
WaitExpiryReplies ==
    last'.op = "rreq_recv_cb" =>
        /\ last'.e \in SeqSet(InvalidSeq(node[Self]))
        /\ last'.e \in SeqSet(ValidSeq(node'[Self]))
        /\ last'.e \notin SeqSet(InvalidSeq(node'[Self]))
        /\ Len(node'[Self].out) = 1
        /\ node'[Self].out[1].op = "RREP"
        /\ node'[Self].out[1].hop_count = 0
        /\ node'[Self].out[1].destination_sequence_number = node[Self].seq
        /\ node'[Self].out[1].addr = node[Self].entry[last'.e].next_hop

\* A further RREQ of an originator whose reverse entry waits: no entry is
\* created, none is moved and nothing is sent
DuplicateDuringWait ==
    ( /\ last'.op = "rreq_recv"
      /\ last'.m.destination_address = Self
      /\ EntriesFor(node[Self], InvalidSeq(node[Self]), Self, last'.m.source_address) # {} )
    => /\ InvalidSeq(node'[Self]) = InvalidSeq(node[Self])
       /\ ValidSeq(node'[Self]) = ValidSeq(node[Self])
       /\ LiveSlots(node'[Self]) = LiveSlots(node[Self])
       /\ \A e \in Slots : node'[Self].entry[e].lifetime = node[Self].entry[e].lifetime
       /\ node'[Self].out = << >>

RreqAtRelay ==
    /\ last'.op = "rreq_recv"
    /\ last'.m.destination_address # Self
    /\ last'.m.source_address # Self
    /\ \A e \in SeqSet(ValidSeq(node[Self])) :
           node[Self].entry[e].destination_address # last'.m.destination_address

\* The reverse entry the invalid list holds for the received RREQ: the one
\* bt_mesh_search_invalid_destination finds, or NULL
ReverseFound ==
    bt_mesh_search_invalid_destination(node[Self], last'.m.destination_address,
                                       last'.m.source_address, last'.rx.net_idx)

\* Nothing created, moved, re-armed or sent
NothingDone ==
    /\ InvalidSeq(node'[Self]) = InvalidSeq(node[Self])
    /\ ValidSeq(node'[Self]) = ValidSeq(node[Self])
    /\ node'[Self].entry = node[Self].entry
    /\ node'[Self].out = << >>

\* Exactly one RREQ went out, a flooded one
RelayedOnce ==
    /\ Len(node'[Self].out) = 1
    /\ node'[Self].out[1].op = "RREQ"
    /\ node'[Self].out[1].I = 0
    /\ node'[Self].out[1].source_sequence_number = last'.m.source_sequence_number

\* One invalid reverse entry was created for the RREQ
ReverseCreated ==
    \E e \in Slots :
        /\ ~ node[Self].entry[e].alloc
        /\ InvalidSeq(node'[Self]) = Append(InvalidSeq(node[Self]), e)
        /\ ValidSeq(node'[Self]) = ValidSeq(node[Self])
        /\ node'[Self].entry[e].source_address = last'.m.destination_address
        /\ node'[Self].entry[e].destination_address = last'.m.source_address
        /\ node'[Self].entry[e].destination_sequence_number = last'.m.source_sequence_number
        /\ node'[Self].entry[e].lifetime = "bt_mesh_delete_entry_invalid"

\* The existing reverse entry took the RREQ's sequence number, its timer is
\* armed, and no entry was created or moved
ReverseRefreshed ==
    /\ InvalidSeq(node'[Self]) = InvalidSeq(node[Self])
    /\ ValidSeq(node'[Self]) = ValidSeq(node[Self])
    /\ LiveSlots(node'[Self]) = LiveSlots(node[Self])
    /\ node'[Self].entry[ReverseFound].destination_sequence_number
           = last'.m.source_sequence_number
    /\ node'[Self].entry[ReverseFound].lifetime = "bt_mesh_delete_entry_invalid"

RouteFound ==
    bt_mesh_search_valid_destination_without_source(node[Self], last'.m.destination_address,
                                                    last'.rx.net_idx)

\* The step just taken was the reception of a flooded RREQ (D = 0, I = 0) of
\* another node for another node
FloodedRreqForOther ==
    /\ last'.op = "rreq_recv"
    /\ last'.m.destination_address # Self
    /\ last'.m.source_address # Self
    /\ last'.m.D = 0 /\ last'.m.I = 0

\* A directed RREQ (I = 1) to the next hop of the valid entry en, then a
\* RWAIT to the neighbour the RREQ came from with en's hop count
DirectedRreqAndRwait(en) ==
    /\ Len(node'[Self].out) = 2
    /\ node'[Self].out[1].op = "RREQ"
    /\ node'[Self].out[1].I = 1
    /\ node'[Self].out[1].addr = en.next_hop
    /\ node'[Self].out[1].destination_address = last'.m.destination_address
    /\ node'[Self].out[2].op = "RWAIT"
    /\ node'[Self].out[2].addr = last'.rx.addr
    /\ node'[Self].out[2].hop_count = en.hop_count

RrepAtRelay ==
    /\ last'.op = "rrep_recv"
    /\ last'.m.source_address # bt_mesh_primary_addr(Self)

\* The invalid reverse entry that matches the RREP, or NULL
ReverseOfRrep ==
    bt_mesh_search_invalid_destination_with_range(
        node[Self], last'.m.destination_address, last'.m.source_address,
        last'.m.number_of_elements, last'.rx.net_idx)

\* The reverse entry took the RREP's element count and moved to the valid
\* list, a valid forward entry was created, and the RREP went on to the
\* reverse entry's next hop with the hop count hop
RrepForwarded(hop) ==
    /\ node'[Self].entry[ReverseOfRrep].source_number_of_elements = last'.m.number_of_elements
    /\ ReverseOfRrep \in SeqSet(ValidSeq(node'[Self]))
    /\ ReverseOfRrep \notin SeqSet(InvalidSeq(node'[Self]))
    /\ \E e \in Slots :
          /\ ~ node[Self].entry[e].alloc
          /\ ValidSeq(node'[Self]) = ValidSeq(node[Self]) \o << ReverseOfRrep, e >>
          /\ node'[Self].entry[e].source_address = last'.m.source_address
          /\ node'[Self].entry[e].destination_address = last'.m.destination_address
          /\ node'[Self].entry[e].next_hop = last'.rx.addr
    /\ Len(node'[Self].out) = 1
    /\ node'[Self].out[1].op = "RREP"
    /\ node'[Self].out[1].hop_count = hop
    /\ node'[Self].out[1].addr = node[Self].entry[ReverseOfRrep].next_hop
    /\ node'[Self].out[1].source_address = last'.m.source_address
    /\ node'[Self].out[1].destination_address = last'.m.destination_address

Overlap(a, b) ==
    /\ a.net_idx = b.net_idx
    /\ a.source_address < b.source_address + b.source_number_of_elements
    /\ b.source_address < a.source_address + a.source_number_of_elements
    /\ a.destination_address < b.destination_address + b.destination_number_of_elements
    /\ b.destination_address < a.destination_address + a.destination_number_of_elements

\* C4: no two entries of the valid list with the same net_idx cover
\* overlapping (source range x destination range) rectangles.
C4_NoOverlappingValid ==
    \A i, j \in 1..Len(ValidSeq(node[Self])) :
        i # j => ~ Overlap(node[Self].entry[ValidSeq(node[Self])[i]],
                           node[Self].entry[ValidSeq(node[Self])[j]])

\* ------------------------------------------------------------------------
\* The routing table under its clients, step by step (SpecRT): the receive
\* thread runs the table's functions one semaphore section at a time, as the
\* handlers call them; the timer callbacks run in between.  A section is
\* atomic: every list access in routing_table.c is inside k_sem_take /
\* k_sem_give of that list's semaphore.
\* ------------------------------------------------------------------------
CreateKinds == {"valid", "invalid", "invalid_with_cb"}
ListOfKind(kind) == IF kind = "valid" THEN "valid_list" ELSE "invalid_list"
CallbackOfKind(kind) ==
    CASE kind = "valid" -> "bt_mesh_delete_entry_valid"
      [] kind = "invalid" -> "bt_mesh_delete_entry_invalid"
      [] kind = "invalid_with_cb" -> "rreq_recv_cb"
\* The destination the caller writes into the entry: reverse entries of the
\* destination role lead to originator 1, the others to node 3
DestOfKind(kind) == IF kind = "invalid_with_cb" THEN 1 ELSE 3

\* A record of the pool is free and yet linked or armed: what follows (a
\* second k_mem_slab_free, a memset over a running timer) is undefined
Corrupt(s) ==
    \E e \in DOMAIN s.entry :
        /\ ~ s.entry[e].alloc
        /\ \/ e \in SeqSet(ValidSeq(s)) \cup SeqSet(InvalidSeq(s))
           \/ s.entry[e].lifetime # "stopped"

Step(op, e, ret) == Op(op, Self, NoRx, NoMsg, e, ret)

CreateFn(kind) ==
    CASE kind = "valid" -> "bt_mesh_create_entry_valid"
      [] kind = "invalid" -> "bt_mesh_create_entry_invalid"
      [] kind = "invalid_with_cb" -> "bt_mesh_create_entry_invalid_with_cb"

\* The table is in a state the code's behaviour is defined for
Defined == ~ Corrupt(node[Self])

\* bt_mesh_create_entry_*: k_mem_slab_alloc and memset, or return false
RT_CreateBegin ==
    \E kind \in CreateKinds :
        /\ Defined /\ thread.pc = "idle"
        /\ \E b \in { create_begin(node[Self]) } :
              /\ node' = [node EXCEPT ![Self] = b.st]
              /\ thread' = IF b.ret
                           THEN [pc |-> "create_link", e |-> b.e, kind |-> kind,
                                 d |-> DestOfKind(kind)]
                           ELSE ThreadIdle
              /\ last' = Step(CreateFn(kind), b.e, IF b.ret THEN "true" ELSE "false")
        /\ UNCHANGED << sem, run, relayed, ring, net >>

\* ... sys_slist_append under the list's semaphore
RT_CreateLink ==
    /\ Defined /\ thread.pc = "create_link"
    /\ node' = [node EXCEPT ![Self] = create_link(@, thread.e, ListOfKind(thread.kind))]
    /\ thread' = [thread EXCEPT !.pc = "create_arm"]
    /\ last' = Step("create_link", thread.e, "0")
    /\ UNCHANGED << sem, run, relayed, ring, net >>

\* ... k_timer_init, k_timer_start, return true; the caller fills the entry
RT_CreateArm ==
    /\ Defined /\ thread.pc = "create_arm"
    /\ node' = [node EXCEPT ![Self] =
                  [create_arm(@, thread.e, CallbackOfKind(thread.kind)) EXCEPT
                      !.entry[thread.e].source_address = Self,
                      !.entry[thread.e].destination_address = thread.d,
                      !.entry[thread.e].next_hop = thread.d,
                      !.entry[thread.e].source_number_of_elements = 1,
                      !.entry[thread.e].destination_number_of_elements = 1,
                      !.entry[thread.e].net_idx = NetIdx]]
    /\ thread' = ThreadIdle
    /\ last' = Step("create_arm", thread.e, "true")
    /\ UNCHANGED << sem, run, relayed, ring, net >>

\* A handler looks up the route to node 3 and keeps the pointer it got
RT_Search ==
    \E which \in {"valid_list", "invalid_list"} :
        LET e == IF which = "valid_list"
                 THEN bt_mesh_search_valid_destination(node[Self], Self, 3, NetIdx)
                 ELSE bt_mesh_search_invalid_destination(node[Self], Self, 3, NetIdx)
        IN  /\ Defined /\ thread.pc = "idle"
            /\ e # NULL
            /\ thread' = [pc |-> "found", e |-> e, kind |-> which, d |-> 3]
            /\ last' = Step("search", e, "true")
            /\ UNCHANGED << sem, run, node, relayed, ring, net >>

\* The handler only read the entry
RT_Release ==
    /\ Defined /\ thread.pc = "found"
    /\ thread' = ThreadIdle
    /\ last' = Step("release", thread.e, "0")
    /\ UNCHANGED << sem, run, node, relayed, ring, net >>

\* bt_mesh_refresh_lifetime_valid / _invalid on the entry found
RT_Refresh ==
    /\ Defined /\ thread.pc = "found"
    /\ node' = [node EXCEPT ![Self] =
                  IF thread.kind = "valid_list"
                  THEN bt_mesh_refresh_lifetime_valid(@, thread.e)
                  ELSE bt_mesh_refresh_lifetime_invalid(@, thread.e)]
    /\ thread' = ThreadIdle
    /\ last' = Step("refresh", thread.e, "0")
    /\ UNCHANGED << sem, run, relayed, ring, net >>

\* bt_mesh_validate_route on an entry found in the invalid list, and
\* bt_mesh_invalidate_route on one found in the valid list: k_timer_stop and
\* the unlink under the first semaphore
RT_MoveUnlink ==
    /\ Defined /\ thread.pc = "found"
    /\ node' = [node EXCEPT ![Self] =
                  IF thread.kind = "invalid_list" THEN validate_unlink(@, thread.e)
                  ELSE invalidate_unlink(@, thread.e)]
    /\ thread' = [thread EXCEPT !.pc = "move_link"]
    /\ last' = Step(IF thread.kind = "invalid_list" THEN "validate_unlink"
                    ELSE "invalidate_unlink", thread.e, "0")
    /\ UNCHANGED << sem, run, relayed, ring, net >>

\* ... the append under the second semaphore
RT_MoveLink ==
    /\ Defined /\ thread.pc = "move_link"
    /\ node' = [node EXCEPT ![Self] =
                  IF thread.kind = "invalid_list" THEN validate_link(@, thread.e)
                  ELSE invalidate_link(@, thread.e)]
    /\ thread' = [thread EXCEPT !.pc = "move_rearm"]
    /\ last' = Step(IF thread.kind = "invalid_list" THEN "validate_link"
                    ELSE "invalidate_link", thread.e, "0")
    /\ UNCHANGED << sem, run, relayed, ring, net >>

\* ... k_timer_init, k_timer_start, return true
RT_MoveRearm ==
    /\ Defined /\ thread.pc = "move_rearm"
    /\ node' = [node EXCEPT ![Self] =
                  IF thread.kind = "invalid_list" THEN validate_rearm(@, thread.e)
                  ELSE invalidate_rearm(@, thread.e)]
    /\ thread' = ThreadIdle
    /\ last' = Step(IF thread.kind = "invalid_list" THEN "validate_rearm"
                    ELSE "invalidate_rearm", thread.e, "true")
    /\ UNCHANGED << sem, run, relayed, ring, net >>

\* A lifetime timer expires; its callback runs to completion
RT_TimerExpire ==
    /\ Defined
    /\ TimerExpire(Self)

NextRT ==
    \/ RT_CreateBegin
    \/ RT_CreateLink
    \/ RT_CreateArm
    \/ RT_Search
    \/ RT_Release
    \/ RT_Refresh
    \/ RT_MoveUnlink
    \/ RT_MoveLink
    \/ RT_MoveRearm
    \/ RT_TimerExpire

SpecRT == Init /\ [][NextRT]_vars

\* ------------------------------------------------------------------------
\* Properties of the routing table (SpecRT)
\* ------------------------------------------------------------------------
Linked(s, e) == e \in SeqSet(ValidSeq(s)) \cup SeqSet(InvalidSeq(s))

\* The record the thread has allocated and not yet appended
BeingCreated(e) == thread.pc = "create_link" /\ thread.e = e

\* C1: in every state another thread can observe, the intermediate states of
\* bt_mesh_validate_route and bt_mesh_invalidate_route included, every record
\* is in exactly one of the valid list, the invalid list and the free pool.
\* (A record between its allocation and its first append is left aside.)
C1_ExactlyOnePlace ==
    \A e \in Slots :
        \/ BeingCreated(e)
        \/ IF node[Self].entry[e].alloc
           THEN (e \in SeqSet(ValidSeq(node[Self]))) # (e \in SeqSet(InvalidSeq(node[Self])))
           ELSE ~ Linked(node[Self], e)

\* C2: when the lifetime timer of an entry fires (a deleter callback), the
\* entry leaves its list and its record returns to the pool, and from then on
\* no list holds that record, so that no search returns it, whatever the
\* order of create, refresh, validate, invalidate and expiry.
C2_ExpiredEntryIsGone ==
    [][ /\ last'.op \in {"bt_mesh_delete_entry_valid", "bt_mesh_delete_entry_invalid"}
           => /\ ~ Linked(node'[Self], last'.e)
              /\ ~ node'[Self].entry[last'.e].alloc
        /\ \A e \in Slots : ~ node'[Self].entry[e].alloc => ~ Linked(node'[Self], e) ]_vars

\* C3: the live records never exceed NUMBER_OF_ENTRIES, and a create (valid,
\* invalid or invalid with callback) attempted while every record is live
\* returns false, links nothing and arms no timer.
C3_PoolBound ==
    [][ /\ Cardinality(LiveSlots(node'[Self])) <= NUMBER_OF_ENTRIES
        /\ ( /\ last'.op \in { CreateFn(k) : k \in CreateKinds }
             /\ FreeSlots(node[Self]) = {} )
           => /\ last'.ret = "false"
              /\ node'[Self] = node[Self]
              /\ thread' = ThreadIdle ]_vars

\* A create with callback has just failed on a pool whose records are all
\* live and linked
C3_Witness ==
    /\ last.op = "bt_mesh_create_entry_invalid_with_cb"
    /\ last.ret = "false"
    /\ FreeSlots(node[Self]) = {}
    /\ Len(ValidSeq(node[Self])) + Len(InvalidSeq(node[Self])) = NUMBER_OF_ENTRIES
    /\ thread = ThreadIdle

\* ------------------------------------------------------------------------
\* Properties of the metric rule (SpecMetric)
\* ------------------------------------------------------------------------
\* The step just taken was the reception of a RREQ at its destination while
\* the invalid list holds the reverse entry of its originator
DuplicateAtDestination ==
    /\ last'.op = "rreq_recv"
    /\ last'.m.destination_address = Self
    /\ EntriesFor(node[Self], ValidSeq(node[Self]), Self, last'.m.source_address) = {}
    /\ EntriesFor(node[Self], InvalidSeq(node[Self]), Self, last'.m.source_address) # {}

StoredEntry ==
    CHOOSE e \in Slots :
        e \in EntriesFor(node[Self], InvalidSeq(node[Self]), Self, last'.m.source_address)

\* M = hop_count*10 + rssi*10/RSSI_MIN as an exact value, compared after
\* multiplication by 9: with RSSI_MIN = -90, 9 * M = 90 * hop_count - rssi
ExactM9(hop_count, rssi) == 90 * hop_count - rssi

\* The rssi the new RREQ is compared and stored with
NewRssi == RssiAverage(last'.m.rssi, last'.m.hop_count, last'.rx.rssi)

\* C9: for a duplicate RREQ at the destination the stored entry is replaced
\* iff the new RREQ's exact metric is strictly lower than the stored one's;
\* on a win sequence number, hop_count, next_hop and rssi take the new RREQ's
\* values (either of its two sequence numbers is accepted here), otherwise no
\* field of the stored entry changes.
C9_ExactMetricDecides ==
    [][ DuplicateAtDestination =>
          IF ExactM9(last'.m.hop_count, NewRssi)
                 < ExactM9(node[Self].entry[StoredEntry].hop_count,
                           node[Self].entry[StoredEntry].rssi)
          THEN /\ node'[Self].entry[StoredEntry].hop_count = last'.m.hop_count
               /\ node'[Self].entry[StoredEntry].next_hop = last'.rx.addr
               /\ node'[Self].entry[StoredEntry].rssi = NewRssi
               /\ node'[Self].entry[StoredEntry].destination_sequence_number
                      \in { last'.m.source_sequence_number,
                            last'.m.destination_sequence_number }
          ELSE node'[Self].entry[StoredEntry] = node[Self].entry[StoredEntry] ]_vars

\* ------------------------------------------------------------------------
\* The node as the originator of a discovery (SpecRing): a caller thread in
\* bt_mesh_trans_ring_search for node 3, the ring timer, and the receive
\* thread taking RWAITs of neighbour 1 and RREPs of neighbour 3
\* ------------------------------------------------------------------------
RingTarget == 3

\* RWAITs for the local discovery, from neighbour 1, which holds a route of
\* h hops to the target
RwaitInputs ==
    { [rx |-> [addr |-> 1, net_idx |-> NetIdx, recv_ttl |-> 0, rssi |-> -60, dst |-> Self],
       m  |-> [Msg("RWAIT", Self, 0, NetIdx) EXCEPT
                  !.source_address = Self, !.destination_address = RingTarget,
                  !.source_sequence_number = 0, !.hop_count = h]]
      : h \in 0..MaxHop }

\* RREPs for the local discovery: of the target itself when it is the
\* neighbour (hop count 0), and as forwarded by h relays
RingRrepInputs ==
    { [rx |-> rx,
       m  |-> [Msg("RREP", Self, 0, NetIdx) EXCEPT
                  !.R = 1, !.source_address = Self, !.destination_address = RingTarget,
                  !.number_of_elements = 1, !.hop_count = h,
                  !.destination_sequence_number = sq]]
      : rx \in RrepRx, h \in 0..MaxHop, sq \in 0..MaxSeq }

\* The transport calls bt_mesh_trans_ring_search(tx)
RingStart(n, d) ==
    /\ ring[n].pc \in {"idle", "done"}
    /\ \E b \in { ring_search_begin(Fresh(node[n]), n, d, NetIdx) } :
          /\ node' = [node EXCEPT ![n] = b.st]
          /\ ring' = [ring EXCEPT ![n] = b.ring]
    /\ last' = Op("ring_search", n, NoRx, NoMsg, NULL, "none")
    /\ UNCHANGED << sem, run, relayed, thread, net >>

\* The ring timer expires.  The searching thread looks at ring_flag every
\* 50 ms and the timer's period is 10 s: an expiry finds the flag of the one
\* before cleared.
RingTimerFire(n) ==
    /\ ring[n].pc = "poll"
    /\ ring[n].ring_timer # "stopped"
    /\ ~ ring[n].ring_flag
    /\ ring' = [ring EXCEPT ![n] = ring_search_timer(@)]
    /\ last' = Op("ring_search_timer", n, NoRx, NoMsg, NULL, "0")
    /\ UNCHANGED << sem, run, node, relayed, thread, net >>

\* The searching thread wakes from k_sleep and runs one pass of its loop
RingPoll(n) ==
    /\ ring[n].pc = "poll"
    /\ \E same \in BOOLEAN :
          \E p \in { ring_search_poll(Fresh(node[n]), ring[n], same) } :
              /\ node' = [node EXCEPT ![n] = p.st]
              /\ ring' = [ring EXCEPT ![n] = p.ring]
              /\ last' = Op("ring_search_poll", n, NoRx, NoMsg, NULL, p.ring.ret)
    /\ UNCHANGED << sem, run, relayed, thread, net >>

\* The same two steps of the searching thread over a transport whose
\* bt_mesh_ctl_send returns one of Errs
RingSend(n, d, Errs) ==
    /\ \E err \in Errs, same \in BOOLEAN :
          \E x \in { IF ring[n].pc = "poll"
                     THEN ring_search_sent(ring_search_poll(Fresh(node[n]), ring[n], same), err)
                     ELSE ring_search_sent(ring_search_begin(Fresh(node[n]), n, d, NetIdx), err) } :
              /\ node' = [node EXCEPT ![n] = x.st]
              /\ ring' = [ring EXCEPT ![n] = x.ring]
              /\ last' = Op(IF ring[n].pc = "poll" THEN "ring_search_poll" ELSE "ring_search",
                            n, NoRx, NoMsg, NULL, x.ring.ret)
    /\ UNCHANGED << sem, run, relayed, thread, net >>

NextRing ==
    \/ RingStart(Self, RingTarget)
    \/ RingTimerFire(Self)
    \/ RingPoll(Self)
    \/ RecvRWAIT(Self, RwaitInputs)
    \/ RecvRREP(Self, RingRrepInputs)
    \/ SeqAdvance(Self)

SpecRing == Init /\ [][NextRing]_vars

\* The scheduler runs the searching thread and the timer interrupt
SpecRingFair ==
    /\ SpecRing
    /\ WF_vars(RingPoll(Self))
    /\ WF_vars(RingTimerFire(Self))

\* ------------------------------------------------------------------------
\* The four messages from the struct of the sender to the struct of the
\* receiver (SpecWire)
\* ------------------------------------------------------------------------
\* RREQs as ring search and the relays build them: every field at both ends
\* of its wire width, no destination sequence number when U is set
RreqData ==
    { [ source_address |-> a, destination_address |-> 3,
        source_number_of_elements |-> c, hop_count |-> h, rssi |-> r,
        G |-> 0, D |-> f[1], U |-> f[2], I |-> f[3],
        source_sequence_number |-> sq,
        destination_sequence_number |-> IF f[2] = 1 THEN 0 ELSE dq ]
      : a \in {1, 65535}, c \in {1, 258}, h \in {0, 255}, r \in {-90, 5},
        f \in {0, 1} \X {0, 1} \X {0, 1}, sq \in {0, 16777215}, dq \in {1, 16777215} }

RrepData ==
    { [ R |-> 1, source_address |-> 1, destination_address |-> d,
        destination_sequence_number |-> dq, hop_count |-> h,
        destination_number_of_elements |-> c ]
      : d \in {3, 65535}, dq \in {0, 16777216, 2147483647}, h \in {0, 255},
        c \in {1, 258} }

RwaitData ==
    { [ destination_address |-> d, source_address |-> 1,
        source_sequence_number |-> sq, hop_count |-> h ]
      : d \in {3, 65535}, sq \in {0, 16777216, 2147483647}, h \in {1, 255} }

RerrData ==
    { [ destination_number |-> Len(ds), destinations |-> ds ]
      : ds \in { << [destination_address |-> 3, destination_sequence_number |-> 0] >>,
                 << [destination_address |-> 3, destination_sequence_number |-> 16777215],
                    [destination_address |-> 65535, destination_sequence_number |-> 1] >> } }

\* What the three bytes behind a 12-byte RREQ may hold
BytesBehind == { << 0, 0, 0 >>, << 255, 1, 0 >> }

\* A send function fills its buffer from data and hands it to the transport
WireSend(n) ==
    /\ \/ \E data \in RreqData : last' = Op("rreq_send", n, data, NoMsg, RreqBuf(data), "0")
       \/ \E data \in RrepData : last' = Op("rrep_send", n, data, NoMsg, RrepBuf(data), "0")
       \/ \E data \in RwaitData : last' = Op("rwait_send", n, data, NoMsg, RwaitBuf(data), "0")
       \/ \E data \in RerrData : last' = Op("rerr_send", n, data, NoMsg, RerrBuf(data), "0")
    /\ UNCHANGED << sem, run, node, relayed, thread, ring, net >>

\* The receive handler of the next node dissects the buffer just sent
WireRecv(n) ==
    /\ last.op \in {"rreq_send", "rrep_send", "rwait_send", "rerr_send"}
    /\ \E oob \in BytesBehind :
          last' = [ last EXCEPT
                      !.op = CASE last.op = "rreq_send" -> "rreq_recv"
                               [] last.op = "rrep_send" -> "rrep_recv"
                               [] last.op = "rwait_send" -> "rwait_recv"
                               [] last.op = "rerr_send" -> "rerr_recv",
                      !.m = CASE last.op = "rreq_send" -> RREQ_GET(last.e, oob)
                              [] last.op = "rrep_send" -> RREP_GET(last.e, oob)
                              [] last.op = "rwait_send" -> RWAIT_GET(last.e, oob)
                              [] last.op = "rerr_send" -> RERR_GET(last.e, oob) ]
    /\ UNCHANGED << sem, run, node, relayed, thread, ring, net >>

NextWire ==
    \/ WireSend(Self)
    \/ WireRecv(Self)

SpecWire == Init /\ [][NextWire]_vars

\* The ring search over a transport that may refuse a message with -ENOBUFS
NextSend ==
    \/ RingSend(Self, RingTarget, {"0", "-ENOBUFS"})
    \/ RingTimerFire(Self)
    \/ RecvRWAIT(Self, RwaitInputs)
    \/ RecvRREP(Self, RingRrepInputs)

SpecSend == Init /\ [][NextSend]_vars

\* ------------------------------------------------------------------------
\* Properties of the ring search (SpecRing, SpecRingFair)
\* ------------------------------------------------------------------------
\* C5: every call of bt_mesh_trans_ring_search eventually returns, with
\* success or with -ENORREP, when the caller and the ring timer are scheduled
\* fairly, whatever pending-reply entries arrive.
C5_RingSearchReturns ==
    (ring[Self].pc = "poll") ~> (ring[Self].pc = "done")

\* The TTLs 2, 3, ..., t in this order
TTLsUpTo(t) == [i \in 1..(t - 1) |-> i + 1]

\* C6: as long as no RREP and no RWAIT has arrived, the ring search has sent
\* RREQs with TTL 2, 3, ... up to its current TTL, in this order, the first
\* at its start and one for each expiry of the ring timer it has seen, and
\* it returns exactly when TTL is RREQ_RING_SEARCH_MAX_TTL, with -ENORREP,
\* after RREQ_RING_SEARCH_MAX_TTL - 2 expiries.
C6_ExpandingRing ==
    (ring[Self].pc # "idle" /\ ring[Self].quiet) =>
        /\ ring[Self].TTL \in RING_INITIAL_TTL..RREQ_RING_SEARCH_MAX_TTL
        /\ ring[Self].sent = TTLsUpTo(ring[Self].TTL)
        /\ Len(ring[Self].sent)
             = 1 + ring[Self].expiries - (IF ring[Self].ring_flag THEN 1 ELSE 0)
        /\ ring[Self].expiries <= RREQ_RING_SEARCH_MAX_TTL - 2
        /\ (ring[Self].pc = "done") = (ring[Self].TTL = RREQ_RING_SEARCH_MAX_TTL)
        /\ ring[Self].pc = "done" =>
              /\ ring[Self].ret = "-ENORREP"
              /\ ring[Self].expiries = RREQ_RING_SEARCH_MAX_TTL - 2
              /\ ring[Self].ring_timer = "stopped"

\* A search has returned -ENORREP without ever seeing a pending-reply entry
C6_Witness ==
    /\ ring[Self].pc = "done"
    /\ ring[Self].quiet
    /\ ring[Self].ret = "-ENORREP"
    /\ ring[Self].sent = << 2, 3, 4, 5, 6, 7, 8, 9, 10 >>

\* ------------------------------------------------------------------------
\* Three nodes in a line, 1 - 2 - 3 (SpecS1): node 1 ring-searches for node
\* 3, no node holds a route.  A control message reaches the radio neighbours
\* of its sender: all of them when it is addressed to all nodes, else the one
\* it is addressed to.  No message is lost.
\* ------------------------------------------------------------------------
Adjacent(a, b) == a - b = 1 \/ b - a = 1

Receivers(n, m) ==
    { x \in Nodes : Adjacent(n, x) /\ (m.addr = BT_MESH_ADDR_ALL_NODES \/ m.addr = x) }

\* The messages node n has handed to bt_mesh_ctl_send, on the air
Post(n, out) ==
    { p \in [to : Nodes, from : {n}, rssi : {-60}, m : SeqSet(out)] :
          p.to \in Receivers(n, p.m) }

\* The network context of a message in flight at its receiver
RxOf(p) ==
    [addr |-> p.from, net_idx |-> p.m.net_idx, recv_ttl |-> p.m.ttl, rssi |-> p.rssi,
     dst |-> p.m.addr]

\* ctl_recv: the handler of the message's opcode
ctl_recv(s, n, rx, m) ==
    CASE m.op = "RREQ" -> bt_mesh_trans_rreq_recv(s, n, rx, m, 0)
      [] m.op = "RREP" -> bt_mesh_trans_rrep_recv(s, n, rx, m)
      [] m.op = "RWAIT" -> [st |-> bt_mesh_trans_rwait_recv(s, n, rx, m), ret |-> "0"]

S1_Deliver ==
    \E p \in net :
        \E r \in { ctl_recv(Fresh(node[p.to]), p.to, RxOf(p), p.m) } :
            /\ node' = [node EXCEPT ![p.to] = r.st]
            /\ net' = (net \ {p}) \cup Post(p.to, r.st.out)
            /\ last' = Op(p.m.op, p.to, RxOf(p), p.m, NULL, r.ret)
            /\ UNCHANGED << sem, run, relayed, thread, ring >>

\* The RREQ_WAIT timer of a reverse entry expires at its node
S1_WaitExpire ==
    \E n \in Nodes, e \in Slots :
        /\ node[n].entry[e].lifetime = "rreq_recv_cb"
        /\ \E s \in { TimerCallback(node[n], n, e) } :
              /\ node' = [node EXCEPT ![n] = s]
              /\ net' = net \cup Post(n, s.out)
        /\ last' = Op("rreq_recv_cb", n, NoRx, NoMsg, e, "0")
        /\ UNCHANGED << sem, run, relayed, thread, ring >>

\* Node 1 has data for node 3 and no route
S1_RingStart ==
    /\ ring[1].pc = "idle"
    /\ \E b \in { ring_search_begin(Fresh(node[1]), 1, 3, NetIdx) } :
          /\ node' = [node EXCEPT ![1] = b.st]
          /\ ring' = [ring EXCEPT ![1] = b.ring]
          /\ net' = net \cup Post(1, b.st.out)
    /\ last' = Op("ring_search", 1, NoRx, NoMsg, NULL, "none")
    /\ UNCHANGED << sem, run, relayed, thread >>

\* The ring timer of node 1 expires.  Its interval is 10 s (40 s after a
\* RWAIT entry): no message sent before is still on the air.
S1_RingTimerFire ==
    /\ net = {}
    /\ RingTimerFire(1)

S1_RingPoll ==
    /\ ring[1].pc = "poll"
    /\ \E same \in BOOLEAN :
          \E p \in { ring_search_poll(Fresh(node[1]), ring[1], same) } :
              /\ node' = [node EXCEPT ![1] = p.st]
              /\ ring' = [ring EXCEPT ![1] = p.ring]
              /\ net' = net \cup Post(1, p.st.out)
              /\ last' = Op("ring_search_poll", 1, NoRx, NoMsg, NULL, p.ring.ret)
    /\ UNCHANGED << sem, run, relayed, thread >>

NextS1 ==
    \/ S1_RingStart
    \/ S1_Deliver
    \/ S1_WaitExpire
    \/ S1_RingTimerFire
    \/ S1_RingPoll

SpecS1 == Init /\ [][NextS1]_vars

\* ------------------------------------------------------------------------
\* Properties of the three-node discovery (SpecS1)
\* ------------------------------------------------------------------------
\* Node n holds a valid entry (src, dst) with the given next hop
HasValid(n, src, dst, next_hop) ==
    \E e \in SeqSet(ValidSeq(node[n])) :
        /\ node[n].entry[e].source_address = src
        /\ node[n].entry[e].destination_address = dst
        /\ node[n].entry[e].next_hop = next_hop

\* C7: in scenario S1 the pending-reply entry that node 1 appends is
\* (destination 3, hop 2), appended when node 1 holds its valid forward entry
\* to 3 via 2 and node 2 holds its valid reverse entry and its valid forward
\* entry (1, 3) via 3; and the ring search of node 1 returns success.
C7_ThreeNodeDiscovery ==
    /\ \A i \in 1..Len(node[1].rrep_rwait_list) :
          /\ node[1].rrep_rwait_list[i] = [destination_address |-> 3, hop_count |-> 2]
          /\ HasValid(1, 1, 3, 2)
          /\ HasValid(2, 3, 1, 1)
          /\ HasValid(2, 1, 3, 3)
    /\ ring[1].pc = "done" =>
          /\ ring[1].ret = "0"
          /\ HasValid(1, 1, 3, 2)

\* ------------------------------------------------------------------------
\* Properties of RREP reception at the originator (SpecRing)
\* ------------------------------------------------------------------------
\* The step just taken was the reception of a RREP whose source_address is
\* the local primary address
RrepForSelf ==
    /\ last'.op = "rrep_recv"
    /\ last'.m.source_address = bt_mesh_primary_addr(Self)

\* The valid (src, dst) entry the table holds when the RREP arrives, or NULL
ForwardFound ==
    bt_mesh_search_valid_destination(node[Self], last'.m.source_address,
                                     last'.m.destination_address, last'.rx.net_idx)

\* One valid forward entry for the RREP was created, the entry old (if any)
\* went from the valid to the invalid list
ForwardReplaced(old) ==
    \E e \in Slots :
        /\ ~ node[Self].entry[e].alloc
        /\ node'[Self].entry[e].alloc
        /\ node'[Self].entry[e].source_address = last'.m.source_address
        /\ node'[Self].entry[e].destination_address = last'.m.destination_address
        /\ node'[Self].entry[e].next_hop = last'.rx.addr
        /\ SeqSet(ValidSeq(node'[Self])) = (SeqSet(ValidSeq(node[Self])) \ {old}) \cup {e}
        /\ SeqSet(InvalidSeq(node'[Self]))
              = SeqSet(InvalidSeq(node[Self])) \cup (IF old = NULL THEN {} ELSE {old})

\* C12: a RREP for the local node changes neither the routing table nor the
\* pending-reply list if a valid (src, dst) entry with a sequence number >=
\* the RREP's exists; otherwise the older valid entry (if any) moves to the
\* invalid list, one valid forward entry with next_hop = link-layer sender is
\* created, and exactly one pending-reply entry (RREP.dst, RREP.hop) is
\* appended.
C12_RrepAtOriginator ==
    [][ RrepForSelf =>
          IF /\ ForwardFound # NULL
             /\ node[Self].entry[ForwardFound].destination_sequence_number
                   >= last'.m.destination_sequence_number
          THEN /\ node'[Self].entry = node[Self].entry
               /\ node'[Self].valid_list = node[Self].valid_list
               /\ node'[Self].invalid_list = node[Self].invalid_list
               /\ node'[Self].rrep_rwait_list = node[Self].rrep_rwait_list
          ELSE /\ ForwardReplaced(ForwardFound)
               /\ node'[Self].rrep_rwait_list
                     = Append(node[Self].rrep_rwait_list,
                              [destination_address |-> last'.m.destination_address,
                               hop_count |-> last'.m.hop_count]) ]_vars

\* ------------------------------------------------------------------------
\* Properties of the link drop at a terminal node (SpecDrop)
\* ------------------------------------------------------------------------
\* The valid entries that have neighbour b as next hop on net_idx
RoutesOver(s, b, net_idx) ==
    { e \in SeqSet(ValidSeq(s)) : s.entry[e].next_hop = b /\ s.entry[e].net_idx = net_idx }

\* Block e holds the same route before and after the step (its list link
\* aside)
SameRoute(e) ==
    [node'[Self].entry[e] EXCEPT !.node = NULL] = [node[Self].entry[e] EXCEPT !.node = NULL]

\* C14: when the timer of the neighbour record of B fires at a node whose
\* routes over B all start at the node itself (scenario S4), then after the
\* fan-out no valid entry has B as next hop on that net_idx, each entry that
\* had is in the invalid list, the valid entries with another next hop are
\* still valid and hold what they held, no RERR has been sent, and B is not
\* in the neighbour list.
C14_LinkDropFanOut ==
    [][ ( /\ last'.op = "hello_expiry"
          /\ \A e \in RoutesOver(node[Self], last'.rx.addr, last'.rx.net_idx) :
                 node[Self].entry[e].source_address = bt_mesh_primary_addr(Self) )
        => /\ RoutesOver(node'[Self], last'.rx.addr, last'.rx.net_idx) = {}
           /\ \A e \in RoutesOver(node[Self], last'.rx.addr, last'.rx.net_idx) :
                  /\ e \in SeqSet(InvalidSeq(node'[Self]))
                  /\ e \notin SeqSet(ValidSeq(node'[Self]))
           /\ \A e \in SeqSet(ValidSeq(node[Self])) \
                       RoutesOver(node[Self], last'.rx.addr, last'.rx.net_idx) :
                  /\ e \in SeqSet(ValidSeq(node'[Self]))
                  /\ SameRoute(e)
                  /\ node'[Self].entry[e].lifetime = "bt_mesh_delete_entry_valid"
           /\ node'[Self].out = << >>
           /\ hello_msg_list_search_entry(node'[Self], last'.rx.addr) = 0 ]_vars

\* The record of neighbour 3 has expired at a node with one route over 3 and
\* one over 1: the first is invalid, the second valid, only neighbour 1 is
\* left
C14_Witness ==
    /\ last.op = "hello_expiry"
    /\ last.rx.addr = 3
    /\ \E e \in SeqSet(InvalidSeq(node[Self])) :
           node[Self].entry[e].next_hop = 3 /\ node[Self].entry[e].source_address = Self
    /\ \E e \in SeqSet(ValidSeq(node[Self])) : node[Self].entry[e].next_hop = 1
    /\ Len(node[Self].hello_msg_list) = 1
    /\ node[Self].hello_msg_list[1].source_address = 1

\* ------------------------------------------------------------------------
\* Properties of the RERR batching (SpecRerr)
\* ------------------------------------------------------------------------
\* The step just taken was a fan-out: the expiry of a neighbour record or the
\* reception of a RERR
FanOut == last'.op \in {"hello_expiry", "rerr_recv"}

\* The destinations the fan-out looks for: any (-1) after an expiry, those
\* listed in the RERR otherwise
FanOutDestinations ==
    IF last'.op = "hello_expiry" THEN {-1}
    ELSE { last'.m.destinations[j].destination_address : j \in 1..Len(last'.m.destinations) }

\* The valid entries the fan-out matches whose source is another node
IntermediateMatched ==
    { e \in SeqSet(ValidSeq(node[Self])) :
        /\ node[Self].entry[e].source_address # bt_mesh_primary_addr(Self)
        /\ \E d \in FanOutDestinations :
               KeyMatch(node[Self].entry[e],
                        [destination_address |-> d, next_hop |-> last'.rx.addr,
                         net_idx |-> last'.rx.net_idx]) }

\* The valid entry of the reverse route of entry e, NULL if there is none
ReverseOf(e) ==
    bt_mesh_search_valid_destination_with_net_idx(node[Self],
        node[Self].entry[e].destination_address, node[Self].entry[e].source_address,
        node[Self].entry[e].net_idx)

\* (next_hop, net_idx) of the reverse routes of the matched entries
ReverseHops ==
    { << node[Self].entry[ReverseOf(e)].next_hop, node[Self].entry[ReverseOf(e)].net_idx >>
      : e \in { x \in IntermediateMatched : ReverseOf(x) # NULL } }

\* The RERRs the step has sent to next hop k[1] on net_idx k[2]
RerrsTo(k) ==
    { i \in 1..Len(node'[Self].out) :
        /\ node'[Self].out[i].op = "RERR"
        /\ node'[Self].out[i].addr = k[1]
        /\ node'[Self].out[i].net_idx = k[2] }

\* A RERR lists no destination twice and its count byte is the number of
\* its tuples
WellFormedRerr(m) ==
    /\ m.destination_number = Len(m.destinations)
    /\ \A i, j \in 1..Len(m.destinations) :
           m.destinations[i].destination_address = m.destinations[j].destination_address
               => i = j

\* C15: a fan-out sends exactly one RERR per distinct (next_hop, net_idx) of
\* the reverse routes of the intermediate entries it matched, and no other;
\* each RERR lists a destination at most once and its count byte equals the
\* number of tuples that follow.
C15_OneRerrPerReverseHop ==
    [][ FanOut =>
          /\ \A k \in ReverseHops : Cardinality(RerrsTo(k)) = 1
          /\ \A i \in 1..Len(node'[Self].out) :
                 /\ node'[Self].out[i].op = "RERR"
                 /\ << node'[Self].out[i].addr, node'[Self].out[i].net_idx >> \in ReverseHops
                 /\ WellFormedRerr(node'[Self].out[i]) ]_vars

\* The valid entries that are the reverse route of a matched entry
ReversesOfMatched == { ReverseOf(e) : e \in IntermediateMatched } \ {NULL}

\* C16: on a RERR from upstream U listing D1..Dn, every valid entry of
\* another node's route with destination Di, next hop U and the net_idx of
\* the RERR is moved to the invalid list together with its reverse entry,
\* and a RERR listing Di goes to the next hop of the reverse entry; the valid
\* entries that match no (Di, U, net_idx), the reverse entries aside, stay
\* valid and unchanged.
C16_RerrReceive ==
    [][ last'.op = "rerr_recv" =>
          /\ \A e \in IntermediateMatched :
                 /\ e \in SeqSet(InvalidSeq(node'[Self]))
                 /\ e \notin SeqSet(ValidSeq(node'[Self]))
                 /\ ReverseOf(e) # NULL
                 /\ ReverseOf(e) \in SeqSet(InvalidSeq(node'[Self]))
                 /\ ReverseOf(e) \notin SeqSet(ValidSeq(node'[Self]))
                 /\ \E i \in RerrsTo(<< node[Self].entry[ReverseOf(e)].next_hop,
                                        node[Self].entry[ReverseOf(e)].net_idx >>) :
                        \E j \in 1..Len(node'[Self].out[i].destinations) :
                            node'[Self].out[i].destinations[j].destination_address =
                                node[Self].entry[e].destination_address
          /\ \A e \in SeqSet(ValidSeq(node[Self])) \
                      (IntermediateMatched \cup ReversesOfMatched) :
                 \/ KeyMatch(node[Self].entry[e],
                             [destination_address |-> node[Self].entry[e].destination_address,
                              next_hop |-> last'.rx.addr, net_idx |-> last'.rx.net_idx])
                    /\ node[Self].entry[e].destination_address \in FanOutDestinations
                 \/ /\ e \in SeqSet(ValidSeq(node'[Self]))
                    /\ SameRoute(e)
                    /\ node'[Self].entry[e].lifetime = "bt_mesh_delete_entry_valid" ]_vars

\* ------------------------------------------------------------------------
\* Properties of the HELLO receive under the clock (SpecHello)
\* ------------------------------------------------------------------------
\* The neighbour record of source b at the local node, 0 when there is none
Neighbour(b) == hello_msg_list_search_entry(node[Self], b)

\* C17: a HELLO from a source without a neighbour record leaves the
\* neighbour list (and the routes) as they are, no record is made; a HELLO
\* from a source with a record restarts the timer of that record, which
\* then has its whole HELLO_MSG_LIFETIME ahead, and changes nothing else.
\* So the timer of a neighbour fires only when no HELLO of it arrived for
\* HELLO_MSG_LIFETIME ticks: a neighbour heard more recently triggers no
\* fan-out, and the routes of the local node over it stay valid, as they
\* are, when the timer of another neighbour fires.
C17_HelloKeepsNeighbour ==
    [][ /\ ( last'.op = "hello_msg_recv" /\ Neighbour(last'.rx.addr) = 0 )
            => /\ node'[Self].hello_msg_list = node[Self].hello_msg_list
               /\ ValidSeq(node'[Self]) = ValidSeq(node[Self])
               /\ InvalidSeq(node'[Self]) = InvalidSeq(node[Self])
        /\ ( last'.op = "hello_msg_recv" /\ Neighbour(last'.rx.addr) # 0 )
            => /\ Len(node'[Self].hello_msg_list) = Len(node[Self].hello_msg_list)
               /\ \A i \in 1..Len(node[Self].hello_msg_list) :
                      IF i = Neighbour(last'.rx.addr)
                      THEN /\ node'[Self].hello_msg_list[i].lifetime = "running"
                           /\ node'[Self].hello_msg_list[i].age = 0
                           /\ node'[Self].hello_msg_list[i].source_address = last'.rx.addr
                           /\ node'[Self].hello_msg_list[i].net_idx =
                                  node[Self].hello_msg_list[i].net_idx
                      ELSE node'[Self].hello_msg_list[i] = node[Self].hello_msg_list[i]
               /\ ValidSeq(node'[Self]) = ValidSeq(node[Self])
               /\ InvalidSeq(node'[Self]) = InvalidSeq(node[Self])
        /\ last'.op = "hello_expiry"
            => /\ node[Self].hello_msg_list[Neighbour(last'.rx.addr)].heard
                      >= HELLO_MSG_LIFETIME
               /\ \A i \in 1..Len(node[Self].hello_msg_list) :
                      node[Self].hello_msg_list[i].heard < HELLO_MSG_LIFETIME
                      => \A e \in RoutesOver(node[Self],
                                     node[Self].hello_msg_list[i].source_address,
                                     node[Self].hello_msg_list[i].net_idx) :
                             node[Self].entry[e].source_address = bt_mesh_primary_addr(Self)
                             => /\ e \in SeqSet(ValidSeq(node'[Self]))
                                /\ SameRoute(e) ]_vars

\* The timer of neighbour 1 has fired and its route is invalid, while
\* neighbour 3, heard less than HELLO_MSG_LIFETIME ticks ago, still has its
\* record, its running timer and its valid route
C17_Witness ==
    /\ last.op = "hello_expiry"
    /\ last.rx.addr = 1
    /\ Neighbour(3) # 0
    /\ node[Self].hello_msg_list[Neighbour(3)].lifetime = "running"
    /\ node[Self].hello_msg_list[Neighbour(3)].heard < HELLO_MSG_LIFETIME
    /\ RoutesOver(node[Self], 3, 0) # {}
    /\ RoutesOver(node[Self], 1, 0) = {}
    /\ \E e \in SeqSet(InvalidSeq(node[Self])) : node[Self].entry[e].next_hop = 1

\* ------------------------------------------------------------------------
\* Properties of remove_neighbour (SpecNeighbour)
\* ------------------------------------------------------------------------
\* The neighbour list of state s without the clock of its records
NeighbourList(s) ==
    [ i \in 1..Len(s.hello_msg_list) |->
        << s.hello_msg_list[i].source_address, s.hello_msg_list[i].net_idx >> ]

\* C18: remove_neighbour(n, idx) deletes the neighbour record of n only
\* when no entry with next_hop = n and net_idx = idx is left in the valid
\* list, and while there is such an entry it leaves the neighbour list as
\* it is.  Checked for the call on every state the node reaches, and for
\* the calls the RERR receive makes after each entry it has invalidated:
\* the record of the sender goes with its last valid route and stays
\* while another valid route over the sender is left.
C18_RemoveNeighbour ==
    [][ /\ \A b \in Neighbours \cup {4} :
               LET r == remove_neighbour(node'[Self], b, NetIdx)
               IN  IF RoutesOver(node'[Self], b, NetIdx) # {}
                   THEN r.hello_msg_list = node'[Self].hello_msg_list
                   ELSE /\ hello_msg_list_search_entry(r, b) = 0
                        /\ NeighbourList(r) =
                               SelectSeq(NeighbourList(node'[Self]), LAMBDA x : x[1] # b)
                        /\ r.entry = node'[Self].entry
                        /\ r.valid_list = node'[Self].valid_list
                        /\ r.invalid_list = node'[Self].invalid_list
        /\ last'.op = "rerr_recv"
            => IF RoutesOver(node'[Self], last'.rx.addr, last'.rx.net_idx) # {}
                  \/ RoutesOver(node[Self], last'.rx.addr, last'.rx.net_idx) = {}
               THEN node'[Self].hello_msg_list = node[Self].hello_msg_list
               ELSE NeighbourList(node'[Self]) =
                        SelectSeq(NeighbourList(node[Self]),
                                  LAMBDA x : x[1] # last'.rx.addr) ]_vars

\* A RERR of neighbour 3 has taken the route to 3 out of the valid list
\* while the route to 4 over 3 is still valid: the record of 3 is still
\* there, and the same call would delete the record of neighbour 1, which
\* has no valid route left
C18_Witness ==
    /\ last.op = "rerr_recv"
    /\ last.rx.addr = 3
    /\ \E e \in SeqSet(InvalidSeq(node[Self])) :
           node[Self].entry[e].next_hop = 3 /\ node[Self].entry[e].destination_address = 3
    /\ \E e \in RoutesOver(node[Self], 3, NetIdx) : node[Self].entry[e].destination_address = 4
    /\ Neighbour(3) # 0

\* ------------------------------------------------------------------------
\* Properties of the failed allocation (SpecRelay)
\* ------------------------------------------------------------------------
\* The receive handler of this step ran out of route-entry records: none
\* was free when it was called, and it gave up with ENOSR of either sign
AllocationFailed ==
    /\ last'.op \in {"rreq_recv", "rrep_recv"}
    /\ FreeSlots(node[Self]) = {}
    /\ last'.ret \in {"-ENOSR", "ENOSR"}

\* C19: when a slab allocation fails inside bt_mesh_trans_rreq_recv or
\* bt_mesh_trans_rrep_recv, the handler returns a negative error code and
\* leaves the valid list, the invalid list, the neighbour list and the
\* pending-reply list as they were before the call, and sends nothing.
C19_AllocationFailure ==
    [][ AllocationFailed
        => /\ last'.ret = "-ENOSR"
           /\ ValidSeq(node'[Self]) = ValidSeq(node[Self])
           /\ InvalidSeq(node'[Self]) = InvalidSeq(node[Self])
           /\ node'[Self].hello_msg_list = node[Self].hello_msg_list
           /\ node'[Self].rrep_rwait_list = node[Self].rrep_rwait_list
           /\ node'[Self].out = << >> ]_vars

\* ------------------------------------------------------------------------
\* Properties of the ring search over a failing transport (SpecSend)
\* ------------------------------------------------------------------------
\* C20: if the ctl-send primitive returns non-zero for a RREQ the ring
\* search transmits, the first one or one with a bumped TTL, then
\* bt_mesh_trans_ring_search returns that value to its caller: after the
\* step that sent, the search is over and its result is the error.
C20_SendFailureReturned ==
    [][ ( /\ last'.op \in {"ring_search", "ring_search_poll"}
          /\ ring'[Self].err \notin {"none", "0"} )
        => /\ ring'[Self].pc = "done"
           /\ ring'[Self].ret = ring'[Self].err ]_vars

\* ------------------------------------------------------------------------
\* Properties of validate and invalidate as operations (SpecRelay)
\* ------------------------------------------------------------------------
\* List which of state s is a proper singly linked list: no record twice,
\* the walk ends, and tail names the last record
ProperList(s, which) ==
    LET q == ListSeq(s, s[which])
    IN  /\ Len(q) <= NUMBER_OF_ENTRIES
        /\ \A i, j \in 1..Len(q) : i # j => q[i] # q[j]
        /\ s[which].tail = IF q = << >> THEN NULL ELSE q[Len(q)]
        /\ q # << >> => s.entry[q[Len(q)]].node = NULL

\* The two lists of state s as they are walked and as their heads stand
BothLists(s) == << ValidSeq(s), InvalidSeq(s), s.valid_list, s.invalid_list >>

\* The data fields of a route entry: all but the list link and the timer
DataFields(en) == [en EXCEPT !.node = NULL, !.lifetime = "stopped"]

\* C21: for an entry e of the valid list, bt_mesh_invalidate_route followed
\* by bt_mesh_validate_route puts e back in the valid list with its data
\* fields unchanged and its timer armed again; and bt_mesh_validate_route
\* applied twice in succession (or bt_mesh_invalidate_route twice) leaves
\* both lists as one application does, e linked once in the target list,
\* both lists finite and acyclic.
C21_ValidateInvalidate ==
    ( ProperList(node[Self], "valid_list") /\ ProperList(node[Self], "invalid_list") )
    => /\ \A e \in SeqSet(ValidSeq(node[Self])) :
              LET i1 == bt_mesh_invalidate_route(node[Self], e)
                  i2 == bt_mesh_invalidate_route(i1, e)
                  r  == bt_mesh_validate_route(i1, e)
              IN  /\ e \in SeqSet(ValidSeq(r))
                  /\ e \notin SeqSet(InvalidSeq(r))
                  /\ SeqSet(ValidSeq(r)) = SeqSet(ValidSeq(node[Self]))
                  /\ InvalidSeq(r) = InvalidSeq(node[Self])
                  /\ DataFields(r.entry[e]) = DataFields(node[Self].entry[e])
                  /\ r.entry[e].lifetime = "bt_mesh_delete_entry_valid"
                  /\ ProperList(r, "valid_list") /\ ProperList(r, "invalid_list")
                  /\ BothLists(i2) = BothLists(i1)
                  /\ ProperList(i2, "valid_list") /\ ProperList(i2, "invalid_list")
       /\ \A e \in SeqSet(InvalidSeq(node[Self])) :
              LET v1 == bt_mesh_validate_route(node[Self], e)
                  v2 == bt_mesh_validate_route(v1, e)
              IN  /\ BothLists(v2) = BothLists(v1)
                  /\ ProperList(v2, "valid_list") /\ ProperList(v2, "invalid_list")

\* ------------------------------------------------------------------------
\* Properties of the search by source and destination (SpecSearch)
\* ------------------------------------------------------------------------
\* Entry en covers the pair (q_src, q_dst) on net_idx: each address is one of
\* the count addresses that start at the entry's address
Covers(en, q_src, q_dst, net_idx) ==
    /\ en.net_idx = net_idx
    /\ \E k \in 0..(en.destination_number_of_elements - 1) :
           q_dst = en.destination_address + k
    /\ \E k \in 0..(en.source_number_of_elements - 1) :
           q_src = en.source_address + k

\* The addresses queried: around the local address and around both ends of
\* the 16-bit address space
QueryAddrs == {0, 1, 2, 65533, 65534, 65535}

\* C22: a search by source and destination returns an entry iff some entry
\* of the searched list has the queried net_idx and covers the queried
\* source and destination with its ranges [addr, addr + count): addr and
\* addr + count - 1 match, addr - 1 and addr + count do not, a range at the
\* top of the address space does not wrap round to 0, a count of 0 matches
\* nothing.  Checked for both lists after every step, and for the search
\* the destination makes on a RREQ: it answers -ENORREQ exactly when a valid
\* entry covers (destination, source) of the RREQ.
C22_RangeSearch ==
    [][ /\ \A q_src \in {1, 2, 3}, q_dst \in QueryAddrs, net_idx \in {0, 1} :
              /\ bt_mesh_search_valid_destination(node'[Self], q_src, q_dst, net_idx) # NULL
                  <=> \E e \in SeqSet(ValidSeq(node'[Self])) :
                         Covers(node'[Self].entry[e], q_src, q_dst, net_idx)
              /\ bt_mesh_search_invalid_destination(node'[Self], q_src, q_dst, net_idx) # NULL
                  <=> \E e \in SeqSet(InvalidSeq(node'[Self])) :
                         Covers(node'[Self].entry[e], q_src, q_dst, net_idx)
        /\ last'.op = "rreq_recv"
            => ( last'.ret = "-ENORREQ"
                 <=> \E e \in SeqSet(ValidSeq(node[Self])) :
                        Covers(node[Self].entry[e], last'.m.destination_address,
                               last'.m.source_address, last'.rx.net_idx) ) ]_vars

\* The valid list holds the entry for the two elements 65534 and 65535, and
\* a RREQ of 65535, its last address, has just been refused as answered
\* while no entry starts at 65535
C22_Witness ==
    /\ last.op = "rreq_recv"
    /\ last.ret = "-ENORREQ"
    /\ last.m.source_address = 65535
    /\ \A e \in SeqSet(ValidSeq(node[Self])) :
           /\ node[Self].entry[e].destination_address = 65534
           /\ node[Self].entry[e].destination_number_of_elements = 2
    /\ bt_mesh_search_valid_destination(node[Self], Self, 0, NetIdx) = NULL

\* ------------------------------------------------------------------------
\* Properties of the wire format (SpecWire)
\* ------------------------------------------------------------------------
\* C23: for each of RREQ, RREP, RWAIT and RERR, the fields dissected from
\* the bytes the send function produced are the fields that were encoded
\* (the rssi as the signed 8-bit value it was); a RREQ with U = 1 takes 12
\* bytes instead of 15, and what is dissected from it does not depend on
\* the bytes behind the buffer.
C23_EncodeDecode ==
    /\ last.op \in {"rreq_send", "rreq_recv"}
       => Len(last.e) = IF last.rx.U = 1 THEN 12 ELSE 15
    /\ last.op \in {"rreq_recv", "rrep_recv", "rwait_recv", "rerr_recv"}
       => last.m = last.rx

\* ------------------------------------------------------------------------
\* The list semaphores: what every function takes and gives, in its order
\* ------------------------------------------------------------------------
\* The length of a semaphore queue is not modelled: a thread that finds the
\* count 0 waits until a k_sem_give makes it 1
MaxPolls == 1

take(x) == [op |-> "take", sem |-> x]
give(x) == [op |-> "give", sem |-> x]

\* k_sem_take(x, K_FOREVER); ...; k_sem_give(x): every search, create, delete
\* and view function of a list is one such section, on every return path
Section(x) == << take(x), give(x) >>

\* bt_mesh_validate_route as below, but appending to the valid list before
\* the invalid list's semaphore is given back
validate_route_sems_nested ==
    << take("invalid_list_sem"), take("valid_list_sem"),
       give("valid_list_sem"), give("invalid_list_sem") >>

\* bt_mesh_validate_route: remove under the invalid list's semaphore, give
\* it, append under the valid list's semaphore
validate_route_sems == Section("invalid_list_sem") \o Section("valid_list_sem")

\* bt_mesh_invalidate_route (and bt_mesh_invalidate_rerr_route): the reverse
invalidate_route_sems == Section("valid_list_sem") \o Section("invalid_list_sem")

\* add_neighbour: hello_msg_list_search_entry and, when the neighbour is
\* new, hello_msg_list_create_entry, view_hello_msg_list, view_valid_list
add_neighbour_sems ==
    { Section("hello_msg_list_sem"),
      Section("hello_msg_list_sem") \o Section("hello_msg_list_sem")
          \o Section("hello_msg_list_sem") \o Section("valid_list_sem") }

\* hello_msg_list_delete_entry: the unlink, then view_hello_msg_list
hello_delete_sems == Section("hello_msg_list_sem") \o Section("hello_msg_list_sem")

\* remove_neighbour: view_valid_list and
\* bt_mesh_search_valid_next_hop_with_net_idx; if no route is left,
\* hello_msg_list_search_entry, and for a record found
\* hello_msg_list_delete_entry and view_hello_msg_list
remove_neighbour_sems ==
    { Section("valid_list_sem") \o Section("valid_list_sem"),
      Section("valid_list_sem") \o Section("valid_list_sem")
          \o Section("hello_msg_list_sem"),
      Section("valid_list_sem") \o Section("valid_list_sem")
          \o Section("hello_msg_list_sem") \o hello_delete_sems
          \o Section("hello_msg_list_sem") }

\* view_valid_list .. view_rerr_list at the end of a RERR or of a link drop
\* (view_invalid_rerr_list is taken to print under the invalid list's
\* semaphore)
view_sems ==
    Section("valid_list_sem") \o Section("invalid_list_sem")
        \o Section("invalid_list_sem") \o Section("hello_msg_list_sem")
        \o Section("rerr_list_sem")

\* bt_mesh_trans_rreq_recv: refused by the valid entry; refreshed invalid
\* entry; entry created (destination or relay); relay or reply over an
\* entry that exists
rreq_recv_sems ==
    { Section("valid_list_sem"),
      Section("valid_list_sem") \o Section("invalid_list_sem"),
      Section("valid_list_sem") \o Section("invalid_list_sem")
          \o Section("invalid_list_sem"),
      Section("valid_list_sem") \o Section("invalid_list_sem")
          \o Section("invalid_list_sem") \o Section("valid_list_sem") }

\* bt_mesh_trans_rrep_recv at the originator (search, bt_mesh_invalidate_route,
\* bt_mesh_create_entry_valid, add_neighbour, rrep_rwait_list_create_entry)
\* and at a relay (range search, bt_mesh_validate_route, add_neighbour,
\* bt_mesh_create_entry_valid, add_neighbour)
rrep_recv_sems ==
    { Section("valid_list_sem") \o p \o Section("valid_list_sem") \o a
          \o Section("rrep_rwait_list_sem")
        : p \in {<< >>, invalidate_route_sems}, a \in add_neighbour_sems }
    \cup
    { Section("invalid_list_sem") \o validate_route_sems \o a
          \o Section("valid_list_sem") \o Section("hello_msg_list_sem")
        : a \in add_neighbour_sems }

\* bt_mesh_trans_rwait_recv at the originator: the valid search and
\* rrep_rwait_list_create_entry; at a relay: the invalid search
rwait_recv_sems ==
    { Section("valid_list_sem") \o Section("rrep_rwait_list_sem"),
      Section("invalid_list_sem") }

\* search_callback for an entry of the node's own: invalidated, neighbour
\* removed
own_callback_sems ==
    { invalidate_route_sems \o r : r \in remove_neighbour_sems }

\* search_callback for a relayed entry: reverse route searched, RERR batch
\* searched or created, both routes invalidated, both neighbours removed
relay_callback_sems ==
    { Section("valid_list_sem") \o Section("rerr_list_sem") \o c
          \o invalidate_route_sems \o r1 \o invalidate_route_sems \o r2
        : c \in {<< >>, Section("rerr_list_sem")},
          r1 \in remove_neighbour_sems, r2 \in remove_neighbour_sems }

\* bt_mesh_search_valid_nexthop_net_idx_with_cb and
\* bt_mesh_search_valid_destination_nexthop_net_idx_with_cb around the
\* callback c: the semaphore is given before the callback and taken again
\* after it
with_cb_sems(c) ==
    << take("valid_list_sem"), give("valid_list_sem") >> \o c
        \o << take("valid_list_sem"), give("valid_list_sem") >>

\* The walk, then the loop that sends and deletes the RERR batch
\* (rerr_list_delete_entry) a relayed entry has made: no entry matched; an
\* entry of the node's own; a relayed entry
fan_out_sems ==
    { Section("valid_list_sem") }
    \cup { with_cb_sems(c) : c \in own_callback_sems }
    \cup { with_cb_sems(c) \o Section("rerr_list_sem") : c \in relay_callback_sems }

\* bt_mesh_trans_rerr_recv: the fan-out, then the views
rerr_recv_sems == { f \o view_sems : f \in fan_out_sems }

\* bt_mesh_trans_hello_msg_recv: the search and, for a known source,
\* view_hello_msg_list
hello_msg_recv_sems ==
    { Section("hello_msg_list_sem"),
      Section("hello_msg_list_sem") \o Section("hello_msg_list_sem") }

\* The timer callbacks: bt_mesh_delete_entry_valid,
\* bt_mesh_delete_entry_invalid, rreq_recv_cb (bt_mesh_validate_route,
\* add_neighbour), hello_msg_list_entry_expiry_fn (walk, RERR batch,
\* hello_msg_list_delete_entry, views)
timer_sems ==
    { Section("valid_list_sem"), Section("invalid_list_sem") }
    \cup { validate_route_sems \o a : a \in add_neighbour_sems }
    \cup { f \o hello_delete_sems \o view_sems : f \in fan_out_sems }

\* One pass of the poll loop of bt_mesh_trans_ring_search: nothing found; a
\* RWAIT entry (semaphore given inside the loop and once more behind it); the
\* RREP entry (given, return 0)
poll_sems ==
    { Section("rrep_rwait_list_sem"),
      << take("rrep_rwait_list_sem"), give("rrep_rwait_list_sem"),
         give("rrep_rwait_list_sem") >> }

RECURSIVE polls(_)
polls(k) ==
    IF k = 0 THEN { << >> }
    ELSE { << >> } \cup { p \o q : p \in poll_sems, q \in polls(k - 1) }

\* bt_mesh_trans_ring_search: bt_mesh_search_invalid_rerr_destination, then
\* the passes of the poll loop
ring_search_sems ==
    { Section("invalid_list_sem") \o q : q \in polls(MaxPolls) }

\* What a thread may be asked to run
Handlers(t) ==
    IF t = "timer" THEN timer_sems
    ELSE IF t = "caller" THEN ring_search_sems
    ELSE rreq_recv_sems \cup rrep_recv_sems \cup rwait_recv_sems
            \cup rerr_recv_sems \cup hello_msg_recv_sems

\* A thread enters a handler
Enter(t) ==
    /\ run[t].todo = << >>
    /\ \E p \in Handlers(t) : run' = [run EXCEPT ![t] = [todo |-> p, holds |-> {}]]
    /\ UNCHANGED << node, last, relayed, thread, ring, net, sem >>

\* k_sem_take(x, K_FOREVER): the thread goes on when the count is 1
SemTake(t) ==
    /\ run[t].todo # << >> /\ Head(run[t].todo).op = "take"
    /\ LET x == Head(run[t].todo).sem
       IN  /\ sem[x] = 1
           /\ sem' = [sem EXCEPT ![x] = 0]
           /\ run' = [run EXCEPT ![t] = [todo |-> Tail(@.todo), holds |-> @.holds \cup {x}]]
    /\ UNCHANGED << node, last, relayed, thread, ring, net >>

\* k_sem_give(x): the count becomes 1, its limit
SemGive(t) ==
    /\ run[t].todo # << >> /\ Head(run[t].todo).op = "give"
    /\ LET x == Head(run[t].todo).sem
       IN  /\ sem' = [sem EXCEPT ![x] = 1]
           /\ run' = [run EXCEPT ![t] = [todo |-> Tail(@.todo), holds |-> @.holds \ {x}]]
    /\ UNCHANGED << node, last, relayed, thread, ring, net >>

NextLock == \E t \in Threads : Enter(t) \/ SemTake(t) \/ SemGive(t)

SpecLock == Init /\ [][NextLock]_vars

Rank(x) == CHOOSE i \in 1..Len(Sems) : Sems[i] = x

\* Thread t is at a k_sem_take
Waiting(t) == run[t].todo # << >> /\ Head(run[t].todo).op = "take"

\* ... of a semaphore whose count is 0
Blocked(t) == Waiting(t) /\ sem[Head(run[t].todo).sem] = 0

\* C24: no thread is at the k_sem_take of a list semaphore while it holds a
\* list semaphore that comes later in the order valid, invalid,
\* pending-reply, RERR-batch, neighbour; and in no state are all threads
\* blocked at a list semaphore: whenever a thread is blocked, a thread that
\* is inside a handler and not blocked holds that semaphore or is about to
\* give it.
C24_LockOrder ==
    /\ \A t \in Threads :
          Waiting(t) => \A h \in run[t].holds : Rank(h) < Rank(Head(run[t].todo).sem)
    /\ ~ (\A t \in Threads : Blocked(t))
    /\ \A t \in Threads :
          Blocked(t) => \E u \in Threads \ {t} : run[u].todo # << >> /\ ~ Blocked(u)

\* The receive thread waits for the semaphore of the valid list, which the
\* timer thread holds, while the ring search holds the one of the
\* pending-reply list
C24_Witness ==
    /\ Blocked("recv")
    /\ Head(run["recv"].todo).sem = "valid_list_sem"
    /\ "valid_list_sem" \in run["timer"].holds
    /\ "rrep_rwait_list_sem" \in run["caller"].holds

\* ------------------------------------------------------------------------
\* C25: a RWAIT hint in the pending-reply list
\* ------------------------------------------------------------------------
\* The entries the walk of the poller stops at: a RWAIT hint or the reply of
\* the target
Hits(list, destination_address) ==
    { i \in 1..Len(list) :
        list[i].hop_count # 0 \/ list[i].destination_address = destination_address }

FirstHit(list, destination_address) ==
    CHOOSE i \in Hits(list, destination_address) :
        \A j \in Hits(list, destination_address) : i <= j

\* C25: a pass of the poller that finds an entry with hop_count # 0 removes
\* exactly that entry, does not return 0 on account of it and, while the
\* search goes on, leaves the ring timer restarted (one shot, four times the
\* interval); a pass returns 0 only for an entry with hop_count 0 whose
\* destination_address is the target.
C25_RwaitHint ==
    [][ (last'.op = "ring_search_poll" /\ ring[Self].pc = "poll"
           /\ Hits(node[Self].rrep_rwait_list, ring[Self].data.destination_address) # {})
        => LET list == node[Self].rrep_rwait_list
               i == FirstHit(list, ring[Self].data.destination_address)
           IN  IF list[i].hop_count # 0
               THEN /\ node'[Self].rrep_rwait_list = RemoveAt(list, i)
                    /\ ring'[Self].ret # "0"
                    /\ ring'[Self].pc = "poll" => ring'[Self].ring_timer = "oneshot"
               ELSE /\ node'[Self].rrep_rwait_list = RemoveAt(list, i)
                    /\ ring'[Self].ret = "0" ]_vars

\* ------------------------------------------------------------------------
\* C26: ring searches one after the other, replies at any time, routes that
\* expire
\* ------------------------------------------------------------------------
NextStale ==
    \/ RingStart(Self, RingTarget)
    \/ RingTimerFire(Self)
    \/ RingPoll(Self)
    \/ RecvRWAIT(Self, RwaitInputs)
    \/ RecvRREP(Self, RingRrepInputs)
    \/ TimerExpire(Self)

SpecStale == Init /\ [][NextStale]_vars

\* C26: when bt_mesh_trans_ring_search returns 0, the valid list holds an
\* entry from the local node to the destination searched for, on its net_idx.
C26_SuccessHasRoute ==
    (last.op = "ring_search_poll" /\ last.ret = "0")
    => bt_mesh_search_valid_destination(node[Self], Self, RingTarget, NetIdx) # NULL

\* ------------------------------------------------------------------------
\* C27: the entry a handler got from a search, when the handler uses it
\* ------------------------------------------------------------------------
\* C27: whenever the receive thread refreshes, validates or invalidates the
\* entry a search returned to it, that entry is still allocated and still in
\* the list in which the search found it, whatever the timers did in between.
C27_BorrowedEntryLive ==
    [][ (thread.pc = "found"
           /\ last'.op \in {"refresh", "validate_unlink", "invalidate_unlink"})
        => /\ node[Self].entry[thread.e].alloc
           /\ thread.e \in SeqSet(ListSeq(node[Self], node[Self][thread.kind])) ]_vars

\* ------------------------------------------------------------------------
\* C28: timers of records that are freed or moved
\* ------------------------------------------------------------------------
\* C28: no record was returned to its pool with its timer running (route
\* records and neighbour records), and the timer of a linked route entry is
\* armed with the callback of the list the entry is in: the deleter of the
\* valid list for a valid entry, the deleter of the invalid list or
\* rreq_recv_cb for an invalid one.
C28_TimersStopped ==
    /\ ~ node[Self].hello_msg_slab.armed
    /\ \A e \in Slots :
          /\ ~ node[Self].entry[e].alloc => node[Self].entry[e].lifetime = "stopped"
          /\ e \in SeqSet(ValidSeq(node[Self]))
                => node[Self].entry[e].lifetime \in {"stopped", "bt_mesh_delete_entry_valid"}
          /\ e \in SeqSet(InvalidSeq(node[Self]))
                => node[Self].entry[e].lifetime
                     \in {"stopped", "bt_mesh_delete_entry_invalid", "rreq_recv_cb"}

\* ------------------------------------------------------------------------
\* C29: the cursor of the walks with callback
\* ------------------------------------------------------------------------
\* What a walk from iterator_entry meets, step by step: the entry it stands
\* at, whether that entry is linked in the valid list at that moment, whether
\* the callback is invoked for it, and whether the callback then reads the
\* successor of a NULL *temp (intermediate entry, none behind it)
RECURSIVE WalkLog(_, _, _, _, _, _)
WalkLog(s, n, iterator_entry, key, u, fuel) ==
    IF iterator_entry = NULL \/ fuel = 0 THEN << >>
    ELSE LET temp == s.entry[iterator_entry].node
             match == KeyMatch(s.entry[iterator_entry], key)
             here == [ at |-> iterator_entry,
                       linked |-> iterator_entry \in SeqSet(ValidSeq(s)),
                       called |-> match,
                       null_temp |-> /\ match /\ temp = NULL
                                     /\ s.entry[iterator_entry].source_address
                                            # bt_mesh_primary_addr(n) ]
         IN  IF match
             THEN LET r == search_callback(s, n, iterator_entry, temp, u)
                  IN  IF r.fault THEN << here >>
                      ELSE << here >> \o WalkLog(r.st, n, r.temp, key, u, fuel - 1)
             ELSE << here >> \o WalkLog(s, n, temp, key, u, fuel - 1)

\* The keys of the walks: all entries over a next hop (link drop), or those
\* of one destination over it (RERR)
WalkKeys ==
    { [destination_address |-> d, next_hop |-> h, net_idx |-> NetIdx]
        : d \in {-1, 1, 3}, h \in Neighbours }

\* C29: a walk with callback over the valid list, by next_hop + net_idx or
\* by destination + next_hop + net_idx, started in any state the node
\* reaches: every entry it stands at is linked in the valid list, it invokes
\* the callback for no entry twice, the callback never reads the successor
\* of a NULL cursor, and when the walk is through no entry of the valid list
\* matches the key any more.
C29_WalkCursor ==
    \A key \in WalkKeys, u \in NullAccess :
        LET s == node[Self]
            log == WalkLog(s, Self, s.valid_list.head, key, u, WalkFuel)
            w == valid_list_for_each_safe(s, Self, s.valid_list.head, key, u, WalkFuel)
        IN  /\ \A i \in 1..Len(log) : log[i].linked /\ ~ log[i].null_temp
            /\ \A i, j \in 1..Len(log) :
                  (i # j /\ log[i].called /\ log[j].called) => log[i].at # log[j].at
            /\ ~ w.fault =>
                  \A e \in SeqSet(ValidSeq(w.st)) : ~ KeyMatch(w.st.entry[e], key)

\* ------------------------------------------------------------------------
\* C30: the RERR batch and its pools after a fan-out
\* ------------------------------------------------------------------------
\* C30: when a link-drop fan-out or a RERR receive has run through, the RERR
\* batch list is empty and no record of the destination pool is in use: all
\* DESTINATION_LIST_NUMBER_OF_ENTRIES records are free again.
C30_BatchReleased ==
    (last.op \in {"hello_expiry", "rerr_recv"} /\ last.ret # "fault")
    => /\ node[Self].rerr_list = << >>
       /\ node[Self].destination_slab = 0

\* ------------------------------------------------------------------------
\* C31: the pool of the neighbour records
\* ------------------------------------------------------------------------
\* C31: the neighbour list never holds more records than hello_msg_slab has,
\* and no neighbour record was given back to hello_msg_slab a second time
\* for one allocation: the free records and the linked ones add up to the
\* capacity of the pool.
C31_NeighbourPool ==
    /\ Len(node[Self].hello_msg_list) <= hello_msg_list_NUMBER_OF_ENTRIES
    /\ ~ node[Self].hello_msg_slab.twice

\* ------------------------------------------------------------------------
\* C32: the semaphore of the pending-reply list
\* ------------------------------------------------------------------------
\* The threads inside a section of semaphore x
Holders(x) == { t \in Threads : x \in run[t].holds }

\* C32: rrep_rwait_list_sem is given only by the thread that has taken it
\* and not yet given it back, at most one thread is inside a section of it,
\* and its count is 1 only while no thread is: the ring search and
\* rrep_rwait_list_create_entry are never in the pending-reply list together.
C32_PendingListExclusive ==
    /\ [](/\ Cardinality(Holders("rrep_rwait_list_sem")) <= 1
          /\ sem["rrep_rwait_list_sem"] = 1 => Holders("rrep_rwait_list_sem") = {})
    /\ [][ \A t \in Threads :
             ( /\ run[t].todo # << >>
               /\ Head(run[t].todo) = give("rrep_rwait_list_sem")
               /\ run'[t].todo = Tail(run[t].todo) )
             => "rrep_rwait_list_sem" \in run[t].holds ]_vars

\* ------------------------------------------------------------------------
\* C33: forward and reverse entries of a relay
\* ------------------------------------------------------------------------
\* C33: every entry of the valid list whose source is not the local primary
\* address has its counterpart in the valid list: the entry with source and
\* destination swapped on the same net_idx, which search_callback looks up
\* to take the next hop of the RERR from.
C33_ReversePresent ==
    \A e \in SeqSet(ValidSeq(node[Self])) :
        LET F == node[Self].entry[e]
        IN  F.source_address # bt_mesh_primary_addr(Self)
            => bt_mesh_search_valid_destination_with_net_idx(node[Self],
                   F.destination_address, F.source_address, F.net_idx) # NULL

\* ------------------------------------------------------------------------
\* C34: copies of one RREQ at a node that knows a route (SpecCopies)
\* ------------------------------------------------------------------------
\* A valid route and two reverse entries take three route-entry records:
\* the node is built with one record more than NUMBER_OF_ENTRIES
RoomyPool == NUMBER_OF_ENTRIES + 1

InitCopies ==
    /\ node = [n \in Nodes |->
                 [InitNode EXCEPT !.entry = [i \in 1..RoomyPool |-> FreeBlock]]]
    /\ last = Op("init", 0, NoRx, NoMsg, NULL, "0")
    /\ relayed = {}
    /\ thread = ThreadIdle
    /\ ring = [n \in Nodes |-> RingIdle]
    /\ net = {}
    /\ sem = [x \in {Sems[i] : i \in 1..Len(Sems)} |-> 1]
    /\ run = [t \in Threads |-> NotRunning]

\* One flooded RREQ 1 -> 3 as heard from either neighbour, and the RREP of
\* node 3 that gives the node its route to 3
CopiesRreqInputs ==
    { i \in RreqInputs(1, 3, {0}) : i.m.source_sequence_number = 0 }

CopiesRrepInputs ==
    { i \in RrepInputs : i.m.hop_count = 0 /\ i.m.destination_sequence_number = 0 }

NextCopies ==
    \/ RecvRREQ(Self, CopiesRreqInputs)
    \/ RecvRREP(Self, CopiesRrepInputs)
    \/ TimerExpire(Self)

SpecCopies == InitCopies /\ [][NextCopies]_vars

\* C34: a node holding a valid route to the destination keeps at most one
\* invalid reverse entry for the (source, destination, net_idx) of a flooded
\* RREQ, and a copy of a RREQ it has already taken in (the invalid list
\* holds the reverse entry with that RREQ's source sequence number) is
\* answered with no further RWAIT and no further directed RREQ and creates
\* no entry.
C34_OneAnswerPerRreq ==
    /\ [](\A a, b \in SeqSet(InvalidSeq(node[Self])) :
            LET A == node[Self].entry[a]
                B == node[Self].entry[b]
            IN  ( /\ A.source_address = B.source_address
                  /\ A.destination_address = B.destination_address
                  /\ A.net_idx = B.net_idx
                  /\ bt_mesh_search_valid_destination_without_source(node[Self],
                         A.source_address, A.net_idx) # NULL )
                => a = b)
    /\ [][ ( /\ FloodedRreqForOther
             /\ RouteFound # NULL
             /\ ReverseFound # NULL
             /\ node[Self].entry[ReverseFound].destination_sequence_number
                   = last'.m.source_sequence_number )
           => NothingDone ]_vars

\* ------------------------------------------------------------------------
\* C35: the TTL of a relayed RREQ (SpecTtl)
\* ------------------------------------------------------------------------
\* The TTLs a RREQ can be received with (recv_ttl is a 7-bit field)
RecvTtls == 0..127

\* The first RREQ of the discovery 1 -> 3 as heard with every TTL
TtlInputs ==
    { [i EXCEPT !.rx.recv_ttl = t, !.m.ttl = t]
      : i \in { j \in RreqInputs(1, 3, {0}) : j.m.source_sequence_number = 0 },
        t \in RecvTtls }

NextTtl ==
    \/ RecvRREQ(Self, TtlInputs)
    \/ TimerExpire(Self)

SpecTtl == Init /\ [][NextTtl]_vars

\* C35: every RREQ a node relays leaves with a TTL strictly smaller than the
\* TTL it was received with, whatever that TTL is in 0..127, so that a flood
\* started with TTL t dies out after at most t relays.
C35_TtlDecreases ==
    [][ last'.op = "rreq_recv" =>
          \A i \in FloodedOut(node'[Self]) :
              node'[Self].out[i].ttl < last'.rx.recv_ttl ]_vars

\* ------------------------------------------------------------------------
\* C36: the rssi average of a received RREQ
\* ------------------------------------------------------------------------
\* The smaller and the larger of two numbers
Min2(a, b) == IF a <= b THEN a ELSE b
Max2(a, b) == IF a <= b THEN b ELSE a

\* C36: the rssi a received RREQ leaves in the reverse entry it creates is
\* (peer_rssi * hop + local_rssi) / (hop + 1), peer_rssi being the signed
\* 8-bit value the sender put into the rssi byte, and lies between the
\* smaller and the larger of peer_rssi and local_rssi.
C36_RssiAverage ==
    [][ last'.op = "rreq_recv" =>
          \A e \in Slots :
              ( /\ ~ node[Self].entry[e].alloc
                /\ node'[Self].entry[e].alloc )
              => LET peer == ToS8(last'.m.rssi)
                     hop  == last'.m.hop_count
                     avg  == CDiv(peer * hop + last'.rx.rssi, hop + 1)
                 IN  /\ node'[Self].entry[e].rssi = avg
                     /\ Min2(peer, last'.rx.rssi) <= avg
                     /\ avg <= Max2(peer, last'.rx.rssi) ]_vars

\* ------------------------------------------------------------------------
\* C40: the hop count of a relayed RREQ
\* ------------------------------------------------------------------------
\* C40: every RREQ a node without a route to the destination relays - the
\* first copy of a discovery as well as a fresher retransmission - leaves
\* with the hop count it was received with plus one.
C40_HopCountPlusOne ==
    [][ RreqAtRelay =>
          \A i \in FloodedOut(node'[Self]) :
              node'[Self].out[i].hop_count = last'.m.hop_count + 1 ]_vars

\* ------------------------------------------------------------------------
\* C37: a RWAIT at the originator of the RREQ
\* ------------------------------------------------------------------------
\* C37: a RWAIT received by the originator of the RREQ appends exactly one
\* pending-reply entry (destination_address, hop_count), hop_count # 0, if
\* the node holds no valid route to the RWAIT's destination, and changes no
\* list if the node holds a valid route of its own to that destination.
C37_RwaitAtOriginator ==
    [][ ( /\ last'.op = "rwait_recv"
          /\ last'.m.source_address = bt_mesh_primary_addr(Self) )
        => IF bt_mesh_search_valid_destination(node[Self], bt_mesh_primary_addr(Self),
                  last'.m.destination_address, last'.rx.net_idx) = NULL
           THEN \E h \in 1..255 :
                   node'[Self].rrep_rwait_list =
                       Append(node[Self].rrep_rwait_list,
                              [destination_address |-> last'.m.destination_address,
                               hop_count |-> h])
           ELSE /\ node'[Self].rrep_rwait_list = node[Self].rrep_rwait_list
                /\ ValidSeq(node'[Self]) = ValidSeq(node[Self])
                /\ InvalidSeq(node'[Self]) = InvalidSeq(node[Self])
                /\ node'[Self].hello_msg_list = node[Self].hello_msg_list ]_vars

\* ------------------------------------------------------------------------
\* C38: neighbour records on two subnets (SpecSubnets)
\* ------------------------------------------------------------------------
\* RREPs that end discoveries of the local node on the subnets 0 and 1
SubnetRrepInputs ==
    { [i EXCEPT !.rx.net_idx = k, !.m.net_idx = k] : i \in OwnRrepInputs, k \in {0, 1} }

NextSubnets ==
    \/ RecvRREP(Self, SubnetRrepInputs)
    \/ TimerExpire(Self)
    \/ HelloExpire(Self, 0)

SpecSubnets == Init /\ [][NextSubnets]_vars

\* The neighbour list of s holds a record of (neighbour, net_idx)
HasNeighbour(s, neighbour, net_idx) ==
    \E i \in 1..Len(s.hello_msg_list) :
        /\ s.hello_msg_list[i].source_address = neighbour
        /\ s.hello_msg_list[i].net_idx = net_idx

\* C38: the neighbour list never holds two records of the same (address,
\* net_idx), and after add_neighbour(n, idx) - called when a RREP has made
\* a valid route over next hop n on net_idx idx - it holds a record of
\* (n, idx), unless the pool of neighbour records was exhausted.
C38_NeighbourPerSubnet ==
    /\ [](\A i, j \in 1..Len(node[Self].hello_msg_list) :
            ( /\ node[Self].hello_msg_list[i].source_address
                    = node[Self].hello_msg_list[j].source_address
              /\ node[Self].hello_msg_list[i].net_idx
                    = node[Self].hello_msg_list[j].net_idx ) => i = j)
    /\ [][ ( /\ last'.op = "rrep_recv"
             /\ Len(node[Self].hello_msg_list) < hello_msg_list_NUMBER_OF_ENTRIES )
           => \A e \in SeqSet(ValidSeq(node'[Self])) \ SeqSet(ValidSeq(node[Self])) :
                  HasNeighbour(node'[Self], node'[Self].entry[e].next_hop,
                               node'[Self].entry[e].net_idx) ]_vars

\* ------------------------------------------------------------------------
\* C39: a RREQ at the destination after the reply
\* ------------------------------------------------------------------------
\* The step just taken was the reception, at the destination, of a RREQ for
\* which the valid list holds the reverse entry (source = the RREQ's
\* destination, destination = the RREQ's source) on the RREQ's net_idx
RreqAfterReply ==
    /\ last'.op = "rreq_recv"
    /\ last'.m.destination_address = Self
    /\ last'.m.source_address # Self
    /\ \E e \in SeqSet(ValidSeq(node[Self])) :
          /\ node[Self].entry[e].source_address = last'.m.destination_address
          /\ node[Self].entry[e].destination_address = last'.m.source_address
          /\ node[Self].entry[e].net_idx = last'.rx.net_idx

\* C39: a RREQ that arrives at the destination node while a valid entry for
\* (dst, src) on its net_idx exists is dropped with -ENORREQ: no entry is
\* created, moved or modified, no timer is armed and nothing is sent.
C39_AlreadyReplied ==
    [][ RreqAfterReply => (last'.ret = "-ENORREQ" /\ NothingDone) ]_vars

\* A RREQ of node 1 has just been refused with -ENORREQ by the destination,
\* whose valid list holds the reverse entry to node 1 and which sent nothing
C39_Witness ==
    /\ last.op = "rreq_recv"
    /\ last.ret = "-ENORREQ"
    /\ last.m.destination_address = Self
    /\ last.m.source_address = 1
    /\ node[Self].out = << >>
    /\ \E e \in SeqSet(ValidSeq(node[Self])) :
          /\ node[Self].entry[e].source_address = Self
          /\ node[Self].entry[e].destination_address = 1
          /\ node[Self].entry[e].lifetime = "bt_mesh_delete_entry_valid"

=============================================================================
